---- MODULE Spec2Model ----
(***************************************************************************)
(* pypowerwall: the Powerwall facade (src/pypowerwall/__init__.py) and the *)
(* proxy gateway's request handler (src/proxy/server.py).                  *)
(*                                                                         *)
(* Python values are tagged records, so that None, numbers, strings,       *)
(* dictionaries and the strings json.dumps produces stay distinguishable.  *)
(* A function of the code either returns a value or raises: a raised       *)
(* exception is the record Raise(type, line), line being the source line   *)
(* that raises.                                                            *)
(***************************************************************************)
EXTENDS Integers, Sequences, FiniteSets, TLC

\* ---------------------------------------------------------------- bounds
MaxRequests == 2
MaxTime == 1
MaxClock == 2
CacheExpire == 1

\* ---------------------------------------------------------------- values
None == [t |-> "None"]
Num(n) == [t |-> "num", n |-> n]
Str(s) == [t |-> "str", s |-> s]
Bool(b) == [t |-> "bool", b |-> b]
\* a str holding a firmware version: comps are the numbers between the dots
\* of its first word, -1 for a component that holds no digit
VerStr(comps) == [t |-> "str", comps |-> comps]
\* the float (raw / 0.95) - (5 / 0.95), kept exact as the fraction num / den
Frac(num, den) == [t |-> "num", num |-> num, den |-> den]
\* names (dict keys): a plain name, a name the code inspects by prefix
\* (startswith, substring and last-character tests), and a name the code
\* builds with a format such as "PW%d_temp" % idx
K(s) == [s |-> s]
DevKey(prefix, serial) == [prefix |-> prefix, serial |-> serial]
Fmt(fmt, idx) == [fmt |-> fmt, idx |-> idx]
\* "PW%d_<name>" % idx
PW(idx, name) == [fmt |-> "PW%d_", idx |-> idx, name |-> name]
\* a dict: items is the sequence of its [k, v] pairs in iteration order
KV(k, v) == [k |-> k, v |-> v]
P(s, v) == KV(K(s), v)
Dict(items) == [t |-> "dict", items |-> items]
EmptyDict == Dict(<<>>)
List(s) == [t |-> "list", l |-> s]
\* the str json.dumps(v) returns; pretty is indent=4, sort_keys=True
Json(v) == [t |-> "str", json |-> v, pretty |-> FALSE]
JsonPretty(v) == [t |-> "str", json |-> v, pretty |-> TRUE]
Raise(type, line) == [t |-> "raise", exc |-> type, line |-> line]

IsRaise(v) == v.t = "raise"
IsStr(v) == v.t = "str"

\* Python truthiness, as `x or y` evaluates it
Truthy(v) ==
    CASE v.t = "None" -> FALSE
      [] v.t = "dict" -> Len(v.items) > 0
      [] v.t = "list" -> Len(v.l) > 0
      [] v.t = "bool" -> v.b
      [] v.t = "num" -> IF "n" \in DOMAIN v THEN v.n # 0 ELSE v.num # 0
      [] v.t = "str" -> IF "s" \in DOMAIN v THEN v.s # "" ELSE TRUE
      [] OTHER -> TRUE

Or(a, b) == IF Truthy(a) THEN a ELSE b

\* `key in a` for a dict a
In(key, a) == a.t = "dict" /\ \E i \in DOMAIN a.items : a.items[i].k = key

Lookup(a, key) == a.items[CHOOSE i \in DOMAIN a.items : a.items[i].k = key].v

\* a[key] at source line `line`: None is not subscriptable, a missing key
\* is a KeyError
Subscript(a, key, line) ==
    IF a.t # "dict" THEN Raise("TypeError", line)
    ELSE IF ~In(key, a) THEN Raise("KeyError", line)
    ELSE Lookup(a, key)

\* a.get(key)
DictGet(a, key) == IF In(key, a) THEN Lookup(a, key) ELSE None

\* a[key] = v: an existing key keeps its place, a new key is appended
Put(a, key, v) ==
    IF In(key, a)
    THEN Dict([i \in DOMAIN a.items |->
                 IF a.items[i].k = key THEN KV(key, v) ELSE a.items[i]])
    ELSE Dict(Append(a.items, KV(key, v)))

\* name.startswith(prefix) and `sub in name`: a name the code inspects is
\* DevKey(prefix, serial), and no prefix the code tests is a prefix of another
StartsWith(name, prefix) == "prefix" \in DOMAIN name /\ name.prefix = prefix

\* int(x) / float(x) at source line `line`
IntOf(x, line) ==
    CASE x.t = "bool" -> Num(IF x.b THEN 1 ELSE 0)
      [] x.t = "num" -> x
      [] OTHER -> Raise("TypeError", line)

FloatOf(x, line) == IF x.t = "num" THEN x ELSE Raise("TypeError", line)

\* the first raised exception of a sequence of results, else None
RECURSIVE FirstRaise(_)
FirstRaise(s) ==
    IF s = <<>> THEN None
    ELSE IF IsRaise(Head(s)) THEN Head(s) ELSE FirstRaise(Tail(s))

\* obj.name: the attributes of an object are the fields of its record, and
\* reading any other raises AttributeError
Attr(obj, name, line) ==
    IF name \in DOMAIN obj THEN obj[name] ELSE Raise("AttributeError", line)

\* the cloud mode test of Powerwall.__init__ without the test of the host
CloudModeOfArgument(cloudmodeArg, host) == cloudmodeArg

\* lines 149-154: cloud mode when it is asked for or when no host is given
CloudModeOf(cloudmodeArg, host) == cloudmodeArg \/ host = ""

\* Powerwall.__init__ (lines 107-159): the attributes the gateway reads of the
\* object. auth starts empty and no line of the class stores into it; the
\* class sets no attribute named Tesla or session. ok: the client was built
\* and its authenticate() returned
PowerwallInit(host, cloudmodeArg, authmode, ok) ==
    IF ~ok THEN Raise("Exception", 159)
    ELSE [t |-> "Powerwall", built |-> TRUE, host |-> host, authmode |-> authmode,
          auth |-> EmptyDict,
          client |-> IF CloudModeOf(cloudmodeArg, host) THEN "PyPowerwallCloud"
                     ELSE "PyPowerwallLocal"]


\* ---------------------------------------------------------------- facade
\* Powerwall.poll: payload is what the backend client's poll returned
Poll(payload, jsonformat) == IF jsonformat THEN Json(payload) ELSE payload

Scale(level) ==
    IF level.t # "num" THEN Raise("TypeError", 206)
    ELSE Frac((level.n - 5) * 100, 95)

\* level reading payload['percentage'] without the test of line 203
LevelUnguarded(payload, scale) ==
    LET level == Subscript(payload, K("percentage"), 204)
    IN  IF IsRaise(level) THEN level
        ELSE IF scale THEN Scale(level) ELSE level

\* Powerwall.level: payload is poll('/api/system_status/soe')
Level(payload, scale) ==
    IF payload # None /\ In(K("percentage"), payload)
    THEN LET level == Lookup(payload, K("percentage"))
         IN  IF scale THEN Scale(level) ELSE level
    ELSE None

\* Powerwall.vitals: output is what the backend client's vitals returned
Vitals(output, jsonformat) == IF jsonformat THEN JsonPretty(output) ELSE output

\* Powerwall.site_name: payload is poll('/api/site_info/site_name')
SiteName(payload) ==
    LET site_name == Subscript(payload, K("site_name"), 346)
    IN  IF IsRaise(site_name) THEN None ELSE site_name

\* Powerwall.status: payload is client.poll('/api/status'); param is None or
\* the Str naming the field
Status(payload, param, jsonformat) ==
    IF payload = None THEN None
    ELSE IF param = None
         THEN IF jsonformat THEN JsonPretty(payload) ELSE payload
         ELSE IF In(K(param.s), payload) THEN Lookup(payload, K(param.s))
              ELSE None

\* Powerwall.version with int_value=False
Version(payload) == Status(payload, Str("version"), FALSE)

\* Powerwall.temps: output is client.vitals()
Temps(output, jsonformat) ==
    LET devices == Or(Vitals(output, FALSE), EmptyDict)
        tethc == SelectSeq(devices.items, LAMBDA it : StartsWith(it.k, "TETHC"))
        temps == Dict([i \in 1..Len(tethc) |->
                         KV(tethc[i].k, DictGet(tethc[i].v, K("THC_AmbientTemp")))])
    IN  IF jsonformat THEN JsonPretty(temps) ELSE temps

\* the alerts of the devices, in device order (the loop of lines 437-444)
RECURSIVE DeviceAlerts(_, _)
DeviceAlerts(items, alertsonly) ==
    IF items = <<>> THEN <<>>
    ELSE LET device == Head(items)
             own == IF In(K("alerts"), device.v)
                    THEN LET l == Lookup(device.v, K("alerts")).l
                         IN  [j \in 1..Len(l) |->
                                IF alertsonly THEN l[j]
                                ELSE Dict(<<KV(device.k, l[j])>>)]
                    ELSE <<>>
         IN  own \o DeviceAlerts(Tail(items), alertsonly)

\* the names whose value is True (the loops of lines 448-454)
TrueAlerts(d) ==
    LET on == SelectSeq(d.items, LAMBDA it : it.v = Bool(TRUE))
    IN  [i \in 1..Len(on) |-> Str(on[i].k.s)]

\* Powerwall.alerts: output is client.vitals(), solar is
\* poll('/api/solar_powerwall'), read only when there are no vitals
Alerts(output, solar, jsonformat, alertsonly) ==
    LET devices == Or(Vitals(output, FALSE), EmptyDict)
        data == Or(Poll(solar, FALSE), EmptyDict)
        pvac_alerts == Or(DictGet(data, K("pvac_alerts")), EmptyDict)
        pvs_alerts == Or(DictGet(data, K("pvs_alerts")), EmptyDict)
        alerts == IF Truthy(devices) THEN DeviceAlerts(devices.items, alertsonly)
                  ELSE IF alertsonly
                       THEN TrueAlerts(pvac_alerts) \o TrueAlerts(pvs_alerts)
                       ELSE <<>>
    IN  IF jsonformat THEN JsonPretty(List(alerts)) ELSE List(alerts)

\* Powerwall.get_reserve: data is poll('/api/operation')
GetReserve(data, scale) ==
    IF data # None /\ In(K("backup_reserve_percent"), data)
    THEN LET percent == FloatOf(Lookup(data, K("backup_reserve_percent")), 471)
         IN  IF IsRaise(percent) THEN percent
             ELSE IF scale THEN Scale(percent) ELSE percent
    ELSE None

\* the table with the numeric code of SystemMicroGridFaulted mistyped
gridmapMistyped ==
    [SystemGridConnected |-> [string |-> Str("UP"), numeric |-> Num(1)],
     SystemIslandedActive |-> [string |-> Str("DOWN"), numeric |-> Num(0)],
     SystemTransitionToGrid |-> [string |-> Str("SYNCING"), numeric |-> Num(-1)],
     SystemTransitionToIsland |-> [string |-> Str("SYNCING"), numeric |-> Num(-1)],
     SystemIslandedReady |-> [string |-> Str("SYNCING"), numeric |-> Num(-1)],
     SystemMicroGridFaulted |-> [string |-> Str("DOWN"), numeric |-> Num(-1)],
     SystemWaitForUser |-> [string |-> Str("DOWN"), numeric |-> Num(0)]]

gridmap ==
    [SystemGridConnected |-> [string |-> Str("UP"), numeric |-> Num(1)],
     SystemIslandedActive |-> [string |-> Str("DOWN"), numeric |-> Num(0)],
     SystemTransitionToGrid |-> [string |-> Str("SYNCING"), numeric |-> Num(-1)],
     SystemTransitionToIsland |-> [string |-> Str("SYNCING"), numeric |-> Num(-1)],
     SystemIslandedReady |-> [string |-> Str("SYNCING"), numeric |-> Num(-1)],
     SystemMicroGridFaulted |-> [string |-> Str("DOWN"), numeric |-> Num(0)],
     SystemWaitForUser |-> [string |-> Str("DOWN"), numeric |-> Num(0)]]

\* Powerwall.grid_status: payload is poll('/api/system_status/grid_status')
GridStatus(payload, type) ==
    IF type \notin {"json", "string", "numeric"} THEN Raise("ValueError", 489)
    ELSE IF type = "json" THEN JsonPretty(payload)
    ELSE LET grid_status == Subscript(payload, K("grid_status"), 504)
         IN  IF IsRaise(grid_status) THEN grid_status
             ELSE IF "s" \in DOMAIN grid_status /\ grid_status.s \in DOMAIN gridmap
                  THEN gridmap[grid_status.s][type]
                  ELSE None

\* Powerwall.system_status: payload is poll('/api/system_status')
SystemStatus(payload, jsonformat) ==
    IF payload = None THEN None
    ELSE IF jsonformat THEN JsonPretty(payload) ELSE payload


\* the names strings() picks by substring test, and the idxname each gets;
\* a picked name is DevKey(prefix, letter): PVAC_PVCurrent_A, ...,
\* PVS_StringA_Connected
StringFieldKind ==
    [PVAC_PVCurrent_ |-> "Current", PVAC_PVMeasuredPower_ |-> "Power",
     PVAC_PVMeasuredVoltage_ |-> "Voltage", PVAC_PvState_ |-> "State",
     PVS_String |-> "Connected"]

IsStringField(e) == "prefix" \in DOMAIN e /\ e.prefix \in DOMAIN StringFieldKind

\* lines 251-253: the PVS string data injected into the PVAC device
RECURSIVE InjectPVS(_, _)
InjectPVS(dev, pvsitems) ==
    IF pvsitems = <<>> THEN dev
    ELSE LET ee == Head(pvsitems)
         IN  InjectPVS(IF StartsWith(ee.k, "PVS_String") THEN Put(dev, ee.k, ee.v)
                       ELSE dev,
                       Tail(pvsitems))

\* lines 263-283: result[name][idxname] = v[device][e] for every picked e;
\* name is the string letter followed by devicemap[deviceidx]
RECURSIVE SimpleStrings(_, _, _)
SimpleStrings(fields, result, deviceidx) ==
    IF fields = <<>> THEN result
    ELSE LET e == Head(fields)
             name == Fmt(e.k.serial, deviceidx)
             old == IF In(name, result) THEN Lookup(result, name) ELSE EmptyDict
         IN  SimpleStrings(Tail(fields),
                           IF IsStringField(e.k)
                           THEN Put(result, name,
                                    Put(old, K(StringFieldKind[e.k.prefix]), e.v))
                           ELSE result,
                           deviceidx)

\* lines 255-261
VerboseStrings(dev) ==
    LET pout == Subscript(dev, K("PVAC_Pout"), 256)
    IN  IF IsRaise(pout) THEN pout
        ELSE Dict(<<P("PVAC_Pout", pout)>>
                  \o SelectSeq(dev.items, LAMBDA it : IsStringField(it.k)))

\* lines 245-286: the loop over the devices of v
RECURSIVE StringsLoop(_, _, _, _, _)
StringsLoop(items, v, verbose, result, deviceidx) ==
    IF items = <<>> \/ IsRaise(result) THEN result
    ELSE LET device == Head(items).k
             look == DevKey("PVS", device.serial)
             dev == IF In(look, v)
                    THEN InjectPVS(Lookup(v, device), Lookup(v, look).items)
                    ELSE Lookup(v, device)
         IN  IF ~StartsWith(device, "PVAC")
             THEN StringsLoop(Tail(items), v, verbose, result, deviceidx)
             ELSE IF verbose
             THEN LET r == VerboseStrings(dev)
                  IN  StringsLoop(Tail(items), v, verbose,
                                  IF IsRaise(r) THEN r ELSE Put(result, device, r),
                                  deviceidx)
             ELSE StringsLoop(Tail(items), v, verbose,
                              SimpleStrings(dev.items, result, deviceidx),
                              deviceidx + 1)

\* lines 291-294: string_map[i] is A, B, C, D, A1, B1, ...
StringMap(i) == Fmt(<<"A", "B", "C", "D">>[(i % 4) + 1], i \div 4)

\* lines 301-308
RECURSIVE StringVitals(_, _, _)
StringVitals(strings, i, result) ==
    IF strings = <<>> THEN result
    ELSE LET string == Head(strings)
             connected == Subscript(string, K("connected"), 304)
             voltage == Subscript(string, K("measured_voltage"), 305)
             current == Subscript(string, K("current"), 306)
             power == Subscript(string, K("measured_power"), 307)
             err == FirstRaise(<<connected, voltage, current, power>>)
         IN  IF i >= 36 THEN Raise("IndexError", 302)
             ELSE IF err # None THEN err
             ELSE StringVitals(Tail(strings), i + 1,
                               Put(result, StringMap(i),
                                   Dict(<<P("Connected", connected), P("Voltage", voltage),
                                          P("Current", current), P("Power", power)>>)))

\* Powerwall.strings: output is client.vitals(), solar is
\* poll('/api/solar_powerwall'), read only when there are no vitals
Strings(output, solar, jsonformat, verbose) ==
    LET v == Or(Vitals(output, FALSE), EmptyDict)
        payload == Or(Poll(solar, FALSE), EmptyDict)
        pvac == Lookup(payload, K("pvac_status"))
        result ==
            IF Truthy(v) THEN StringsLoop(v.items, v, verbose, EmptyDict, 0)
            ELSE IF Truthy(payload) /\ In(K("pvac_status"), payload)
                    /\ In(K("string_vitals"), pvac)
                 THEN StringVitals(Lookup(pvac, K("string_vitals")).l, 0, EmptyDict)
                 ELSE EmptyDict
    IN  IF IsRaise(result) THEN result
        ELSE IF jsonformat THEN JsonPretty(result) ELSE result

\* ---------------------------------------------------------------- backend
\* What the backend client (local gateway or cloud) answers. A request sees
\* the device in one of these conditions:
\*   healthy   every payload complete
\*   sparse    payloads lack fields the code reads through get_value alone
\*   degraded  payloads lack the fields the code reads
\*   novitals  polls answer, the vitals call has no data (cloud, new firmware)
\*   empty     polls answer, the vitals call returns no device: {}
\*   offline   every call times out: None
Scenarios == {"healthy", "sparse", "degraded", "novitals", "empty", "offline"}
\* the cloud backend has no vitals data
CloudScenarios == {"novitals", "offline"}

\* the keys of a battery block of /api/system_status that the gateway reads
BlockNumKeys ==
    <<"f_out", "PackagePartNumber", "PackageSerialNumber", "p_out", "q_out",
      "v_out", "i_out", "nominal_energy_remaining", "nominal_full_pack_energy",
      "pinv_state", "pinv_grid_state", "energy_charged", "energy_discharged",
      "OpSeqState", "version">>
BlockFlagKeys ==
    <<"off_grid", "vf_mode", "wobble_detected", "charge_power_clamped",
      "backup_ready">>
FullBlock ==
    Dict([i \in 1..Len(BlockNumKeys) |-> P(BlockNumKeys[i], Num(i))]
         \o [i \in 1..Len(BlockFlagKeys) |-> P(BlockFlagKeys[i], Bool(TRUE))])
Without(d, keys) == Dict(SelectSeq(d.items, LAMBDA it : it.k \notin keys))

PodFlagKeys ==
    <<"POD_ActiveHeating", "POD_ChargeComplete", "POD_ChargeRequest",
      "POD_DischargeComplete", "POD_PermanentlyFaulted",
      "POD_PersistentlyFaulted", "POD_enable_line">>
PodNumKeys ==
    <<"POD_available_charge_power", "POD_available_dischg_power",
      "POD_nom_energy_remaining", "POD_nom_energy_to_be_charged",
      "POD_nom_full_pack_energy">>
FullPod ==
    Dict([i \in 1..Len(PodFlagKeys) |-> P(PodFlagKeys[i], Bool(FALSE))]
         \o [i \in 1..Len(PodNumKeys) |-> P(PodNumKeys[i], Num(i))])
FullPinv ==
    Dict(<<P("PINV_Fout", Num(60)), P("PINV_VSplit1", Num(120)),
           P("PINV_VSplit2", Num(121))>>)
FullSync ==
    Dict(<<KV(DevKey("ISLAND", "_FreqL1_Load"), Num(60)),
           KV(DevKey("METER", "_X_VL1N"), Num(120)),
           P("alerts", List(<<Str("SYNC_a001"), Str("SYNC_a044")>>))>>)
FullPvac ==
    Dict(<<P("PVAC_Pout", Num(900)),
           KV(DevKey("PVAC_PVCurrent_", "A"), Num(2)),
           KV(DevKey("PVAC_PVMeasuredVoltage_", "A"), Num(300)),
           KV(DevKey("PVAC_PvState_", "B"), Str("PV_Active"))>>)
FullPvs ==
    Dict(<<KV(DevKey("PVS_String", "A"), Bool(TRUE)),
           P("PVS_State", Str("PVS_Active"))>>)

HealthyVitals ==
    Dict(<<KV(DevKey("TETHC", 1), Dict(<<P("THC_State", Str("THC_STATE_AUTONOMOUSCONTROL")),
                                         P("THC_AmbientTemp", Num(20))>>)),
           KV(DevKey("TEPOD", 1), FullPod),
           KV(DevKey("TEPINV", 1), FullPinv),
           KV(DevKey("TESYNC", 1), FullSync),
           KV(DevKey("PVAC", 1), FullPvac),
           KV(DevKey("PVS", 1), FullPvs),
           KV(DevKey("TETHC", 2), Dict(<<P("THC_AmbientTemp", Num(22))>>))>>)
SparseVitals ==
    Dict(<<KV(DevKey("TEPOD", 1), Without(FullPod, {K("POD_nom_full_pack_energy")})),
           KV(DevKey("TETHC", 1), EmptyDict),
           KV(DevKey("TEPINV", 1), Without(FullPinv, {K("PINV_VSplit2")}))>>)
DegradedVitals ==
    Dict(<<KV(DevKey("TETHC", 1), EmptyDict),
           KV(DevKey("TEPOD", 1), Without(FullPod, {K("POD_ActiveHeating")})),
           KV(DevKey("TEPINV", 1), EmptyDict)>>)

HealthySolar ==
    Dict(<<P("pvac_status",
             Dict(<<P("string_vitals",
                      List(<<Dict(<<P("connected", Bool(TRUE)), P("measured_voltage", Num(300)),
                                    P("current", Num(2)), P("measured_power", Num(600))>>),
                             Dict(<<P("connected", Bool(FALSE)), P("measured_voltage", Num(0)),
                                    P("current", Num(0)), P("measured_power", Num(0))>>)>>))>>)),
           P("pvac_alerts", Dict(<<P("PVAC_a001", Bool(TRUE)), P("PVAC_a002", Bool(FALSE))>>)),
           P("pvs_alerts", Dict(<<P("PVS_a018", Bool(TRUE))>>))>>)
DegradedSolar ==
    Dict(<<P("pvac_status",
             Dict(<<P("string_vitals",
                      List(<<Dict(<<P("connected", Bool(TRUE))>>)>>))>>))>>)

HealthyPoll ==
    [api \in {"/api/meters/aggregates", "/api/system_status/soe",
              "/api/system_status/grid_status", "/api/site_info/site_name",
              "/api/status", "/api/system_status", "/api/operation",
              "/api/solar_powerwall", "/api/troubleshooting/problems"} |->
        CASE api = "/api/meters/aggregates" ->
                Dict(<<P("site", Dict(<<P("instant_power", Num(-300))>>)),
                       P("load", Dict(<<P("instant_power", Num(600))>>))>>)
          [] api = "/api/system_status/soe" -> Dict(<<P("percentage", Num(50))>>)
          [] api = "/api/system_status/grid_status" ->
                Dict(<<P("grid_status", Str("SystemGridConnected")),
                       P("grid_services_active", Bool(FALSE))>>)
          [] api = "/api/site_info/site_name" ->
                Dict(<<P("site_name", Str("Home")), P("timezone", Str("UTC"))>>)
          [] api = "/api/status" ->
                Dict(<<P("din", Str("1232100-00-E--TG1")),
                       P("version", VerStr(<<23, 44, 0>>)),
                       P("git_hash", Str("eb113390"))>>)
          [] api = "/api/system_status" ->
                Dict(<<P("nominal_full_pack_energy", Num(14000)),
                       P("nominal_energy_remaining", Num(7000)),
                       P("battery_blocks", List(<<FullBlock, FullBlock>>))>>)
          [] api = "/api/operation" ->
                Dict(<<P("real_mode", Str("self_consumption")),
                       P("backup_reserve_percent", Num(24))>>)
          [] api = "/api/solar_powerwall" -> HealthySolar
          [] api = "/api/troubleshooting/problems" ->
                Dict(<<P("problems", List(<<Str("p1")>>))>>)]

\* the backend client's poll(api): the payload, None on failure
ClientPoll(sc, api) ==
    CASE sc = "offline" -> None
      [] sc \in {"healthy", "novitals", "empty"} ->
            IF api \in DOMAIN HealthyPoll THEN HealthyPoll[api]
            ELSE Dict(<<P("api", Str(api))>>)
      [] sc = "sparse" ->
            CASE api = "/api/system_status" ->
                    Dict(<<P("battery_blocks",
                             List(<<Without(FullBlock, {K("f_out"), K("version")})>>))>>)
              [] api = "/api/status" -> Dict(<<P("version", VerStr(<<23, 44>>))>>)
              [] api = "/api/system_status/grid_status" ->
                    Dict(<<P("grid_status", Str("SystemIslandedActive"))>>)
              [] api = "/api/system_status/soe" -> Dict(<<P("percentage", Num(100))>>)
              [] OTHER -> IF api \in DOMAIN HealthyPoll THEN HealthyPoll[api]
                          ELSE Dict(<<P("api", Str(api))>>)
      [] sc = "degraded" ->
            CASE api = "/api/system_status" ->
                    Dict(<<P("battery_blocks",
                             List(<<Without(FullBlock, {K("f_out"), K("off_grid")})>>))>>)
              [] api = "/api/solar_powerwall" -> DegradedSolar
              [] OTHER -> EmptyDict

\* the backend client's vitals(): the devices, None when there is no data
ClientVitals(sc) ==
    CASE sc = "healthy" -> HealthyVitals
      [] sc = "sparse" -> SparseVitals
      [] sc = "degraded" -> DegradedVitals
      [] sc = "empty" -> EmptyDict
      [] OTHER -> None

\* the backend client's fetchpower(sensor): watts, None on failure
ClientFetchpower(sc, sensor) ==
    IF sc \in {"offline", "degraded"} THEN None
    ELSE CASE sensor = "site" -> Num(-300)
           [] sensor = "solar" -> Num(900)
           [] sensor = "battery" -> Num(0)
           [] sensor = "load" -> Num(600)

\* the backend client's get_time_remaining(): hours, None on failure
ClientTimeRemaining(sc) ==
    IF sc \in {"offline", "degraded"} THEN None ELSE Num(12)

\* ---------------------------------------------------------------- routes
ALLOWLIST ==
    {"/api/status", "/api/site_info/site_name", "/api/meters/site",
     "/api/meters/solar", "/api/sitemaster", "/api/powerwalls",
     "/api/customer/registration", "/api/system_status",
     "/api/system_status/grid_status", "/api/system/update/status",
     "/api/site_info", "/api/system_status/grid_faults", "/api/operation",
     "/api/site_info/grid_codes", "/api/solars", "/api/solars/brands",
     "/api/customer", "/api/meters", "/api/installer", "/api/networks",
     "/api/system/networks", "/api/meters/readings",
     "/api/synchrometer/ct_voltage_references", "/api/troubleshooting/problems",
     "/api/auth/toggle/supported", "/api/solar_powerwall"}

\* the paths the elif chain of do_GET names before the allow-list
RoutePaths ==
    {"/aggregates", "/api/meters/aggregates", "/soe", "/api/system_status/soe",
     "/api/system_status/grid_status", "/csv", "/vitals", "/strings", "/stats",
     "/stats/clear", "/temps", "/temps/pw", "/alerts", "/alerts/pw", "/freq",
     "/pod", "/version", "/help", "/api/troubleshooting/problems"}

\* the routes that read or write proxystats while they build the message
StatsPaths == {"/stats", "/stats/clear", "/help"}

\* the elif chain with the test of line 422 always true
IsApiPathAny(path) == path \in RoutePaths \cup ALLOWLIST \/ path \notin ALLOWLIST

IsApiPath(path) == path \in RoutePaths \cup ALLOWLIST

get_value(a, key) == IF In(key, a) THEN Lookup(a, key) ELSE None

\* d[k] = v for every pair of kvs in turn: a key keeps the place of its first
\* store and has the value of its last
PutAll(d, kvs) ==
    LET all == d.items \o kvs
        first == SelectSeq([i \in DOMAIN all |-> i],
                           LAMBDA i : \A j \in 1..(i - 1) : all[j].k # all[i].k)
        last(k) == CHOOSE j \in DOMAIN all :
                       all[j].k = k /\ \A m \in (j + 1)..Len(all) : all[m].k # k
    IN  Dict([n \in DOMAIN first |->
                KV(all[first[n]].k, all[last(all[first[n]].k)].v)])

\* line 204-209: "%0.2f,%0.2f,%0.2f,%0.2f,%0.2f\n" % (...)
Csv(sc) ==
    LET batterylevel == Level(ClientPoll(sc, "/api/system_status/soe"), FALSE)
        grid == Or(ClientFetchpower(sc, "site"), Num(0))
        solar == Or(ClientFetchpower(sc, "solar"), Num(0))
        battery == Or(ClientFetchpower(sc, "battery"), Num(0))
        home == Or(ClientFetchpower(sc, "load"), Num(0))
        row == <<grid, home, solar, battery, batterylevel>>
    IN  IF \E i \in 1..5 : row[i].t # "num" THEN Raise("TypeError", 208)
        ELSE [t |-> "str", csv |-> row]

\* lines 242-249
RECURSIVE PwTemps(_, _, _)
PwTemps(temps, idx, pwtemp) ==
    IF temps = <<>> THEN pwtemp
    ELSE PwTemps(Tail(temps), idx + 1, Put(pwtemp, PW(idx, "temp"), Head(temps).v))

\* /temps/pw numbering the units from 0
TempsPwFromZero(sc) ==
    Json(PwTemps(Temps(ClientVitals(sc), FALSE).items, 0, EmptyDict))

TempsPw(sc) == Json(PwTemps(Temps(ClientVitals(sc), FALSE).items, 1, EmptyDict))

\* lines 255-263
AlertsPw(sc) ==
    LET alerts == Alerts(ClientVitals(sc), ClientPoll(sc, "/api/solar_powerwall"),
                         FALSE, TRUE)
        pwalerts == PutAll(EmptyDict,
                           [i \in 1..Len(alerts.l) |-> KV(K(alerts.l[i].s), Num(1))])
    IN  IF alerts = None THEN None ELSE Or(Json(pwalerts), EmptyDict)

\* lines 270-283
RECURSIVE FreqBlocks(_, _, _)
FreqBlocks(blocks, idx, fcv) ==
    IF blocks = <<>> THEN fcv
    ELSE LET block == Head(blocks)
         IN  FreqBlocks(Tail(blocks), idx + 1,
                 PutAll(fcv,
                    <<KV(PW(idx, "name"), None),
                      KV(PW(idx, "PINV_Fout"), get_value(block, K("f_out"))),
                      KV(PW(idx, "PINV_VSplit1"), None),
                      KV(PW(idx, "PINV_VSplit2"), None),
                      KV(PW(idx, "PackagePartNumber"), get_value(block, K("PackagePartNumber"))),
                      KV(PW(idx, "PackageSerialNumber"), get_value(block, K("PackageSerialNumber"))),
                      KV(PW(idx, "p_out"), get_value(block, K("p_out"))),
                      KV(PW(idx, "q_out"), get_value(block, K("q_out"))),
                      KV(PW(idx, "v_out"), get_value(block, K("v_out"))),
                      KV(PW(idx, "f_out"), get_value(block, K("f_out"))),
                      KV(PW(idx, "i_out"), get_value(block, K("i_out")))>>))

\* lines 287-300
RECURSIVE FreqVitals(_, _, _)
FreqVitals(devices, idx, fcv) ==
    IF devices = <<>> THEN fcv
    ELSE LET device == Head(devices).k
             d == Head(devices).v
             pinv == IF StartsWith(device, "TEPINV")
                     THEN PutAll(fcv,
                            <<KV(PW(idx, "name"), device),
                              KV(PW(idx, "PINV_Fout"), get_value(d, K("PINV_Fout"))),
                              KV(PW(idx, "PINV_VSplit1"), get_value(d, K("PINV_VSplit1"))),
                              KV(PW(idx, "PINV_VSplit2"), get_value(d, K("PINV_VSplit2")))>>)
                     ELSE fcv
             sync == IF StartsWith(device, "TESYNC") \/ StartsWith(device, "TEMSA")
                     THEN PutAll(pinv,
                            SelectSeq(d.items,
                                      LAMBDA it : StartsWith(it.k, "ISLAND")
                                                  \/ StartsWith(it.k, "METER")))
                     ELSE pinv
         IN  FreqVitals(Tail(devices),
                        IF StartsWith(device, "TEPINV") THEN idx + 1 ELSE idx, sync)

\* lines 266-302
Freq(sc) ==
    LET d == Or(SystemStatus(ClientPoll(sc, "/api/system_status"), FALSE), EmptyDict)
        blocks == IF In(K("battery_blocks"), d)
                  THEN FreqBlocks(Lookup(d, K("battery_blocks")).l, 1, EmptyDict)
                  ELSE EmptyDict
        vitals == Or(Vitals(ClientVitals(sc), FALSE), EmptyDict)
        fcv == FreqVitals(vitals.items, 1, blocks)
        grid_status == GridStatus(ClientPoll(sc, "/api/system_status/grid_status"),
                                  "numeric")
    IN  IF IsRaise(grid_status) THEN grid_status
        ELSE Json(Put(fcv, K("grid_status"), grid_status))

\* lines 310-346
RECURSIVE PodBlocks(_, _, _)
PodBlocks(blocks, idx, pod) ==
    IF blocks = <<>> \/ IsRaise(pod) THEN pod
    ELSE LET block == Head(blocks)
             off_grid == IntOf(get_value(block, K("off_grid")), 339)
             vf_mode == IntOf(get_value(block, K("vf_mode")), 340)
             wobble_detected == IntOf(get_value(block, K("wobble_detected")), 341)
             charge_power_clamped == IntOf(get_value(block, K("charge_power_clamped")), 342)
             backup_ready == IntOf(get_value(block, K("backup_ready")), 343)
             err == FirstRaise(<<off_grid, vf_mode, wobble_detected,
                                 charge_power_clamped, backup_ready>>)
         IN  IF err # None THEN err
             ELSE PodBlocks(Tail(blocks), idx + 1,
                 PutAll(pod,
                    <<KV(PW(idx, "name"), None),
                      KV(PW(idx, "POD_ActiveHeating"), None),
                      KV(PW(idx, "POD_ChargeComplete"), None),
                      KV(PW(idx, "POD_ChargeRequest"), None),
                      KV(PW(idx, "POD_DischargeComplete"), None),
                      KV(PW(idx, "POD_PermanentlyFaulted"), None),
                      KV(PW(idx, "POD_PersistentlyFaulted"), None),
                      KV(PW(idx, "POD_enable_line"), None),
                      KV(PW(idx, "POD_available_charge_power"), None),
                      KV(PW(idx, "POD_available_dischg_power"), None),
                      KV(PW(idx, "POD_nom_energy_remaining"), None),
                      KV(PW(idx, "POD_nom_energy_to_be_charged"), None),
                      KV(PW(idx, "POD_nom_full_pack_energy"), None),
                      KV(PW(idx, "POD_nom_energy_remaining"),
                         get_value(block, K("nominal_energy_remaining"))),
                      KV(PW(idx, "POD_nom_full_pack_energy"),
                         get_value(block, K("nominal_full_pack_energy"))),
                      KV(PW(idx, "PackagePartNumber"), get_value(block, K("PackagePartNumber"))),
                      KV(PW(idx, "PackageSerialNumber"), get_value(block, K("PackageSerialNumber"))),
                      KV(PW(idx, "pinv_state"), get_value(block, K("pinv_state"))),
                      KV(PW(idx, "pinv_grid_state"), get_value(block, K("pinv_grid_state"))),
                      KV(PW(idx, "p_out"), get_value(block, K("p_out"))),
                      KV(PW(idx, "q_out"), get_value(block, K("q_out"))),
                      KV(PW(idx, "v_out"), get_value(block, K("v_out"))),
                      KV(PW(idx, "f_out"), get_value(block, K("f_out"))),
                      KV(PW(idx, "i_out"), get_value(block, K("i_out"))),
                      KV(PW(idx, "energy_charged"), get_value(block, K("energy_charged"))),
                      KV(PW(idx, "energy_discharged"), get_value(block, K("energy_discharged"))),
                      KV(PW(idx, "off_grid"), off_grid),
                      KV(PW(idx, "vf_mode"), vf_mode),
                      KV(PW(idx, "wobble_detected"), wobble_detected),
                      KV(PW(idx, "charge_power_clamped"), charge_power_clamped),
                      KV(PW(idx, "backup_ready"), backup_ready),
                      KV(PW(idx, "OpSeqState"), get_value(block, K("OpSeqState"))),
                      KV(PW(idx, "version"), get_value(block, K("version")))>>))

\* lines 350-366
RECURSIVE PodVitals(_, _, _)
PodVitals(devices, idx, pod) ==
    IF devices = <<>> \/ IsRaise(pod) THEN pod
    ELSE LET device == Head(devices).k
             v == Head(devices).v
             flags == [i \in 1..Len(PodFlagKeys) |->
                         IntOf(get_value(v, K(PodFlagKeys[i])), 353 + i)]
             err == FirstRaise(flags)
         IN  IF ~StartsWith(device, "TEPOD") THEN PodVitals(Tail(devices), idx, pod)
             ELSE IF err # None THEN err
             ELSE PodVitals(Tail(devices), idx + 1,
                     PutAll(pod,
                        <<KV(PW(idx, "name"), device)>>
                        \o [i \in 1..Len(PodFlagKeys) |->
                              KV(PW(idx, PodFlagKeys[i]), flags[i])]
                        \o [i \in 1..Len(PodNumKeys) |->
                              KV(PW(idx, PodNumKeys[i]), get_value(v, K(PodNumKeys[i])))]))

\* lines 305-374
Pod(sc) ==
    LET d == Or(SystemStatus(ClientPoll(sc, "/api/system_status"), FALSE), EmptyDict)
        blocks == IF In(K("battery_blocks"), d)
                  THEN PodBlocks(Lookup(d, K("battery_blocks")).l, 1, EmptyDict)
                  ELSE EmptyDict
        vitals == Or(Vitals(ClientVitals(sc), FALSE), EmptyDict)
        pod == PodVitals(vitals.items, 1, blocks)
        reserve == GetReserve(ClientPoll(sc, "/api/operation"), TRUE)
    IN  IF IsRaise(pod) THEN pod
        ELSE IF ~Truthy(pod) THEN Json(pod)
        ELSE IF IsRaise(reserve) THEN reserve
        ELSE Json(PutAll(pod,
                <<P("time_remaining_hours", ClientTimeRemaining(sc)),
                  P("backup_reserve_percent", reserve),
                  P("nominal_full_pack_energy", get_value(d, K("nominal_full_pack_energy"))),
                  P("nominal_energy_remaining", get_value(d, K("nominal_energy_remaining")))>>))

\* the components packed one decimal digit a component
RECURSIVE PackVersionTens(_)
PackVersionTens(l) ==
    IF l = <<>> THEN 0 ELSE PackVersionTens(SubSeq(l, 1, Len(l) - 1)) * 10 + l[Len(l)]

\* lines 385-391: the version's first word packed two decimal digits a component
RECURSIVE PackVersion(_)
PackVersion(l) ==
    IF l = <<>> THEN 0 ELSE PackVersion(SubSeq(l, 1, Len(l) - 1)) * 100 + l[Len(l)]

RECURSIVE PadVersion(_)
PadVersion(l) == IF Len(l) < 3 THEN PadVersion(Append(l, 0)) ELSE l

\* lines 378-392: version is what pw.version() returned
VersionMessage(version) ==
    LET l == PadVersion(version.comps)
    IN  IF version = None
        THEN Json(Dict(<<P("version", Str("SolarOnly")), P("vint", Num(0))>>))
        ELSE IF "comps" \notin DOMAIN version THEN Raise("AttributeError", 385)
        ELSE IF \E i \in DOMAIN l : l[i] < 0 THEN Raise("ValueError", 389)
        ELSE Json(Dict(<<P("version", version), P("vint", Num(PackVersion(l)))>>))

\* lines 375-392
VersionRoute(sc) == VersionMessage(Version(ClientPoll(sc, "/api/status")))

\* the route of the allow-list (line 424) taken for the path of line 420
TroubleshootingAllowlisted(sc) ==
    Poll(ClientPoll(sc, "/api/troubleshooting/problems"), FALSE)

\* lines 420-421: the default body when the poll returns nothing
Troubleshooting(sc) ==
    Or(Poll(ClientPoll(sc, "/api/troubleshooting/problems"), FALSE),
       Str("{\"problems\": []}"))

\* lines 187-215, 237-392, 420-424: the message of the routes that only read
\* the facade, in the order the elif chain tests the path
ApiRoute(path, sc) ==
    IF path \in {"/aggregates", "/api/meters/aggregates"}
    THEN Poll(ClientPoll(sc, "/api/meters/aggregates"), FALSE)
    ELSE IF path = "/soe"
    THEN Poll(ClientPoll(sc, "/api/system_status/soe"), FALSE)
    ELSE IF path = "/api/system_status/soe"
    THEN LET level == Level(ClientPoll(sc, "/api/system_status/soe"), TRUE)
         IN  IF IsRaise(level) THEN level
             ELSE Json(Dict(<<P("percentage", level)>>))
    ELSE IF path = "/api/system_status/grid_status"
    THEN Poll(ClientPoll(sc, "/api/system_status/grid_status"), FALSE)
    ELSE IF path = "/csv" THEN Csv(sc)
    ELSE IF path = "/vitals" THEN Or(Vitals(ClientVitals(sc), TRUE), EmptyDict)
    ELSE IF path = "/strings"
    THEN LET r == Strings(ClientVitals(sc), ClientPoll(sc, "/api/solar_powerwall"),
                          TRUE, FALSE)
         IN  IF IsRaise(r) THEN r ELSE Or(r, EmptyDict)
    ELSE IF path = "/temps" THEN Or(Temps(ClientVitals(sc), TRUE), EmptyDict)
    ELSE IF path = "/temps/pw" THEN TempsPw(sc)
    ELSE IF path = "/alerts"
    THEN Or(Alerts(ClientVitals(sc), ClientPoll(sc, "/api/solar_powerwall"),
                   TRUE, TRUE), List(<<>>))
    ELSE IF path = "/alerts/pw" THEN AlertsPw(sc)
    ELSE IF path = "/freq" THEN Freq(sc)
    ELSE IF path = "/pod" THEN Pod(sc)
    ELSE IF path = "/version" THEN VersionRoute(sc)
    ELSE IF path = "/api/troubleshooting/problems" THEN Troubleshooting(sc)
    ELSE Poll(ClientPoll(sc, path), FALSE)

\* the paths written out in the calls of pw.poll: those of the route table
\* (lines 189-421) and those of the accessors the routes call
HardCoded ==
    {"/api/meters/aggregates", "/api/system_status/soe",
     "/api/system_status/grid_status", "/api/troubleshooting/problems",
     "/api/solar_powerwall", "/api/site_info/site_name", "/api/operation",
     "/api/system_status"}

\* lines 187-424: the paths the branch of a request can pass to pw.poll,
\* itself or through level, strings, alerts, site_name, system_status,
\* grid_status and get_reserve; vitals, the power accessors and status ask the
\* backend client without pw.poll
Polls(path) ==
    IF path \in {"/aggregates", "/api/meters/aggregates"}
    THEN {"/api/meters/aggregates"}
    ELSE IF path \in {"/soe", "/api/system_status/soe", "/csv"}
    THEN {"/api/system_status/soe"}
    ELSE IF path = "/api/system_status/grid_status"
    THEN {"/api/system_status/grid_status"}
    ELSE IF path \in {"/vitals", "/temps", "/temps/pw", "/version", "/stats/clear"}
    THEN {}
    ELSE IF path \in {"/strings", "/alerts", "/alerts/pw"}
    THEN {"/api/solar_powerwall"}
    ELSE IF path \in {"/stats", "/help"} THEN {"/api/site_info/site_name"}
    ELSE IF path = "/freq"
    THEN {"/api/system_status", "/api/system_status/grid_status"}
    ELSE IF path = "/pod" THEN {"/api/system_status", "/api/operation"}
    ELSE IF path = "/api/troubleshooting/problems"
    THEN {"/api/troubleshooting/problems"}
    ELSE {path}

\* lines 436-484: what the static branch serves. found is whether get_static
\* finds the asset under web_root (it returns None when it does not); the
\* device's web server answers unless the device is offline, and then
\* session.get raises
StaticContent(path, found, sc, cm, obj) ==
    IF path \in {"/", ""}
    THEN LET status == Status(ClientPoll(sc, "/api/status"), None, FALSE)
             version == Subscript(status, K("version"), 445)
             git_hash == Subscript(status, K("git_hash"), 446)
         IN  IF ~found THEN Raise("AttributeError", 443)
             ELSE IF IsRaise(version) THEN version
             ELSE IF IsRaise(git_hash) THEN git_hash
             ELSE [t |-> "bytes", from |-> "web_root", path |-> "/index.html",
                   vars |-> <<Or(version, Str("")), Or(git_hash, Str(""))>>]
    ELSE IF found THEN [t |-> "bytes", from |-> "web_root", path |-> path]
    ELSE IF cm THEN [t |-> "bytes", from |-> "Not Found"]
    ELSE LET line == IF obj.authmode = "token" THEN 468 ELSE 476
             session == Attr(obj, "session", line)
         IN  IF IsRaise(session) THEN session
             ELSE IF sc = "offline" THEN Raise("ConnectTimeout", line)
             ELSE [t |-> "bytes", from |-> "powerwall", path |-> path]

\* ---------------------------------------------------------------- state
VARIABLES
    server,      \* how far the module-level code of server.py has run
    pw,          \* the Powerwall object: the attributes the gateway reads
    client,      \* pw.client: the backend's cache and session
    cloudmode,   \* pw.cloudmode, fixed when the Powerwall object is built
    proxystats,  \* the module-level statistics dictionary
    now,         \* the last value int(time.time()) returned
    pc,          \* where each handler thread is in do_GET
    frame,       \* the locals of each handler thread
    resp,        \* what each handler has put on its connection
    hist,        \* history: the requests that completed as a success since the last clear, by path
    call         \* the facade call under test: function, arguments, result

vars == <<server, pw, client, cloudmode, proxystats, now, pc, frame, resp, hist, call>>

\* one thread per connection (ThreadingMixIn): thread w serves the w-th
\* connection accepted
Workers == 1..MaxRequests

NoIter == [todo |-> {}, size |-> 0, replaced |-> FALSE]
NoCounters == [gets |-> 0, errors |-> 0, timeout |-> 0, hit |-> 0]
BlankFrame ==
    [path |-> "", sc |-> "", message |-> None, contenttype |-> "", reg |-> 0,
     iter |-> NoIter, exc |-> None, counted |-> "", pre |-> NoCounters,
     found |-> "", polled |-> {}]
BlankResp ==
    [status |-> 0, headers |-> {}, cookies |-> {}, ended |-> FALSE, body |-> None]
NoCall == [fn |-> "none"]

Hit(uri, path) == IF path \in DOMAIN uri THEN uri[path] ELSE 0
Inc(uri, path) == IF path \in DOMAIN uri THEN [uri EXCEPT ![path] = @ + 1]
                  ELSE uri @@ (path :> 1)
Counters(ps, path) ==
    [gets |-> ps.gets, errors |-> ps.errors, timeout |-> ps.timeout,
     hit |-> Hit(ps.uri, path)]

\* str(datetime.timedelta(seconds=delta))
TimeDelta(delta) == [t |-> "str", timedelta |-> delta]

\* lines 78-92
InitStats ==
    [gets |-> 0, errors |-> 0, timeout |-> 0, uri |-> [p \in {} |-> 0],
     ts |-> 0, start |-> 0, clear |-> 0, uptime |-> Str(""),
     site_name |-> Str(""), cloudmode |-> FALSE]

\* the module-level code before the Powerwall object is built
Boot == [phase |-> "boot", ctor |-> "pending", switch |-> "none",
         fatal |-> FALSE, exc |-> None]
NoPowerwall == [t |-> "Powerwall", built |-> FALSE]
\* the backend client as it is built: nothing cached, its clock at 0
NewClient == [time |-> 0, cache |-> [p \in {} |-> None]]

\* the environment of server.py: PW_HOST, PW_AUTH_MODE, PW_SITEID
Hosts == {"", "10.0.1.99"}
AuthModes == {"cookie", "token"}
SiteIds == {None, Str("2222")}

\* int(time.time()): the clock does not run backwards
Clock == {t \in {now, now + 1} : t <= MaxTime}

\* the conditions of the device a request may meet
Env(scens) == IF cloudmode THEN scens \cap CloudScenarios ELSE scens

Init ==
    /\ server = Boot
    /\ pw = NoPowerwall
    /\ client = NewClient
    /\ cloudmode = FALSE
    /\ proxystats = InitStats
    /\ now = 0
    /\ pc = [w \in Workers |-> "idle"]
    /\ frame = [w \in Workers |-> BlankFrame]
    /\ resp = [w \in Workers |-> BlankResp]
    /\ hist = [served |-> [p \in {} |-> 0], cleared |-> FALSE]
    /\ call = NoCall

\* ---------------------------------------------------------------- startup
\* lines 137-163: the Powerwall object is built; an exception of the
\* constructor is logged as fatal and the process sleeps for ever; in cloud
\* mode the site is logged and, when PW_SITEID names another site, switched
\* to, a failed switch being fatal too. An exception of these lines is caught
\* by nothing and ends the process. switched: what change_site returns
Startup ==
    /\ server.phase = "boot"
    /\ \E host \in Hosts, authmode \in AuthModes, siteid \in SiteIds,
          ok \in BOOLEAN, switched \in BOOLEAN :
          LET obj == PowerwallInit(host, FALSE, authmode, ok)
              Tesla == IF IsRaise(obj) THEN obj ELSE Attr(obj, "Tesla", 151)
          IN  IF IsRaise(obj)
              THEN /\ server' = [server EXCEPT !.phase = "fatal", !.ctor = "raised",
                                               !.fatal = TRUE]
                   /\ UNCHANGED <<pw, cloudmode>>
              ELSE /\ pw' = obj
                   /\ cloudmode' = CloudModeOf(FALSE, host)
                   /\ server' =
                        IF ~cloudmode' THEN [server EXCEPT !.phase = "serving", !.ctor = "ok"]
                        ELSE IF IsRaise(Tesla)
                        THEN [server EXCEPT !.phase = "crashed", !.ctor = "ok",
                                            !.switch = "raised", !.exc = Tesla]
                        ELSE IF siteid # None /\ siteid # Tesla.siteid
                        THEN IF switched
                             THEN [server EXCEPT !.phase = "serving", !.ctor = "ok",
                                                 !.switch = "ok"]
                             ELSE [server EXCEPT !.phase = "fatal", !.ctor = "ok",
                                                 !.switch = "failed", !.fatal = TRUE]
                        ELSE [server EXCEPT !.phase = "serving", !.ctor = "ok"]
    /\ UNCHANGED <<client, proxystats, now, pc, frame, resp, hist, call>>

\* lines 122-125 and 529-544, and 142-148: SIGTERM raises SystemExit in the
\* main thread; serve_forever (or the sleep of a fatal start) is left through
\* its except clause, which calls os._exit(0): the process ends at once, and
\* with it the handler threads, which are daemon threads (line 167). A
\* response already written stays written; a handler still in do_GET is cut
Sigterm ==
    /\ server.phase \in {"boot", "fatal", "serving"}
    /\ server' = [server EXCEPT !.phase = "exited"]
    /\ pc' = [w \in Workers |->
                IF pc[w] \in {"idle", "closed"} THEN pc[w]
                ELSE IF pc[w] \in {"responded", "aborted"} THEN "closed"
                ELSE "killed"]
    /\ frame' = [w \in Workers |->
                   IF pc[w] \in {"responded", "aborted"} THEN BlankFrame ELSE frame[w]]
    /\ resp' = [w \in Workers |->
                  IF pc[w] \in {"responded", "aborted"} THEN BlankResp ELSE resp[w]]
    /\ UNCHANGED <<pw, client, cloudmode, proxystats, now, hist, call>>

\* ---------------------------------------------------------------- do_GET
\* the handler raises: the thread leaves do_GET with nothing more sent
Abort(w, e) ==
    /\ pc' = [pc EXCEPT ![w] = "aborted"]
    /\ frame' = [frame EXCEPT ![w].exc = e]

\* the status line left to be written after routing
send_response_deferred(r, code) == r

\* line 183: the status line of the response
send_response(r, code) == [r EXCEPT !.status = code]

\* lines 183-185, while serve_forever runs (line 540); with serial, a
\* connection is accepted when the ones before it are done
Accept(w, paths, serial) ==
    /\ server.phase = "serving"
    /\ pc[w] = "idle"
    /\ \A v \in 1..(w - 1) : pc[v] # "idle"
    /\ serial => \A v \in Workers \ {w} : pc[v] \in {"idle", "closed"}
    /\ \E p \in paths :
          frame' = [frame EXCEPT ![w] =
                      [BlankFrame EXCEPT !.path = p, !.message = Str("ERROR!"),
                                         !.contenttype = "application/json",
                                         !.pre = Counters(proxystats, p)]]
    /\ resp' = [resp EXCEPT ![w] = send_response(BlankResp, 200)]
    /\ pc' = [pc EXCEPT ![w] = "route"]
    /\ UNCHANGED <<server, pw, client, cloudmode, proxystats, now, hist, call>>

\* lines 187-215, 237-392, 420-424
RouteApi(w, scens) ==
    /\ pc[w] = "route"
    /\ IsApiPath(frame[w].path) /\ frame[w].path \notin StatsPaths
    /\ \E sc \in Env(scens) :
          LET message == ApiRoute(frame[w].path, sc)
          IN  IF IsRaise(message)
              THEN /\ pc' = [pc EXCEPT ![w] = "aborted"]
                   /\ frame' = [frame EXCEPT ![w].sc = sc, ![w].exc = message,
                                             ![w].polled = Polls(frame[w].path)]
              ELSE /\ pc' = [pc EXCEPT ![w] = "count"]
                   /\ frame' = [frame EXCEPT ![w].sc = sc, ![w].message = message,
                                             ![w].polled = Polls(frame[w].path),
                                             ![w].contenttype =
                                                IF frame[w].path = "/csv"
                                                THEN "text/plain; charset=utf-8"
                                                ELSE @]
    /\ UNCHANGED <<server, pw, client, cloudmode, proxystats, now, resp, hist, call>>

\* lines 218-227 and 395-404
StatsFill(ps, t, site_name, cm) ==
    [ps EXCEPT !.ts = t, !.uptime = TimeDelta(t - ps.start),
               !.site_name = site_name, !.cloudmode = cm]

\* lines 216-228
RouteStats(w, scens) ==
    /\ pc[w] = "route"
    /\ frame[w].path = "/stats"
    /\ \E sc \in Env(scens), t \in Clock :
          /\ now' = t
          /\ proxystats' = StatsFill(proxystats, t,
                                     SiteName(ClientPoll(sc, "/api/site_info/site_name")),
                                     cloudmode)
          /\ frame' = [frame EXCEPT ![w].sc = sc, ![w].message = Json(proxystats'),
                                    ![w].polled = Polls(frame[w].path)]
    /\ pc' = [pc EXCEPT ![w] = "count"]
    /\ UNCHANGED <<server, pw, client, cloudmode, resp, hist, call>>

\* line 232
ClearGets(w) ==
    /\ pc[w] = "route"
    /\ frame[w].path = "/stats/clear"
    /\ proxystats' = [proxystats EXCEPT !.gets = 0]
    /\ hist' = [hist EXCEPT !.cleared = TRUE]
    /\ pc' = [pc EXCEPT ![w] = "clear_errors"]
    /\ UNCHANGED <<server, pw, client, cloudmode, now, frame, resp, call>>

\* line 233
ClearErrors(w) ==
    /\ pc[w] = "clear_errors"
    /\ proxystats' = [proxystats EXCEPT !.errors = 0]
    /\ pc' = [pc EXCEPT ![w] = "clear_uri"]
    /\ UNCHANGED <<server, pw, client, cloudmode, now, frame, resp, hist, call>>

\* line 234: proxystats['uri'] becomes a new dict; a loop that is iterating
\* the old one keeps the old one
ClearUri(w) ==
    /\ pc[w] = "clear_uri"
    /\ proxystats' = [proxystats EXCEPT !.uri = [p \in {} |-> 0]]
    /\ frame' = [v \in Workers |->
                   IF pc[v] = "help_iter" THEN [frame[v] EXCEPT !.iter.replaced = TRUE]
                   ELSE frame[v]]
    /\ hist' = [hist EXCEPT !.served = [p \in {} |-> 0]]
    /\ pc' = [pc EXCEPT ![w] = "clear_stamp"]
    /\ UNCHANGED <<server, pw, client, cloudmode, now, resp, call>>

\* /stats/clear restarting the uptime as well
ClearRestarts(ps, t) == [ps EXCEPT !.clear = t, !.start = t]

\* line 235
ClearStamped(ps, t) == [ps EXCEPT !.clear = t]

\* lines 235-236
ClearStamp(w) ==
    /\ pc[w] = "clear_stamp"
    /\ \E t \in Clock :
          /\ now' = t
          /\ proxystats' = ClearStamped(proxystats, t)
          /\ frame' = [frame EXCEPT ![w].message = Json(proxystats')]
    /\ pc' = [pc EXCEPT ![w] = "count"]
    /\ UNCHANGED <<server, pw, client, cloudmode, resp, hist, call>>

\* the page of /help: the rows of the table
Html(rows) == [t |-> "str", html |-> rows]

\* lines 395-414: the statistics, then the rows of every key but 'uri'; the
\* loop over proxystats['uri'] starts
HelpFill(w, scens) ==
    /\ pc[w] = "route"
    /\ frame[w].path = "/help"
    /\ \E sc \in Env(scens), t \in Clock :
          /\ now' = t
          /\ proxystats' = StatsFill(proxystats, t,
                                     SiteName(ClientPoll(sc, "/api/site_info/site_name")),
                                     cloudmode)
          /\ frame' = [frame EXCEPT
                ![w].sc = sc, ![w].contenttype = "text/html",
                ![w].polled = Polls(frame[w].path),
                ![w].message = Html(<<[proxystats' EXCEPT !.uri = [p \in {} |-> 0]]>>),
                ![w].iter = [todo |-> DOMAIN proxystats.uri,
                             size |-> Cardinality(DOMAIN proxystats.uri),
                             replaced |-> FALSE]]
    /\ pc' = [pc EXCEPT ![w] = "help_iter"]
    /\ UNCHANGED <<server, pw, client, cloudmode, resp, hist, call>>

\* lines 415-419: one turn of the loop over proxystats['uri']. A dict that
\* changed size under its iterator raises RuntimeError; line 416 looks the key
\* up in the dict proxystats['uri'] is now
HelpIter(w) ==
    /\ pc[w] = "help_iter"
    /\ LET it == frame[w].iter
           i == CHOOSE k \in it.todo : TRUE
       IN  IF ~it.replaced /\ Cardinality(DOMAIN proxystats.uri) # it.size
           THEN Abort(w, Raise("RuntimeError", 415))
           ELSE IF it.todo = {}
           THEN /\ pc' = [pc EXCEPT ![w] = "count"]
                /\ UNCHANGED frame
           ELSE IF i \notin DOMAIN proxystats.uri
           THEN Abort(w, Raise("KeyError", 416))
           ELSE /\ frame' = [frame EXCEPT
                      ![w].iter.todo = it.todo \ {i},
                      ![w].message = Html(Append(@.html, <<i, proxystats.uri[i]>>))]
                /\ UNCHANGED pc
    /\ UNCHANGED <<server, pw, client, cloudmode, proxystats, now, resp, hist, call>>

\* line 427, the load of proxystats['gets']
StaticCount(w) ==
    /\ pc[w] = "route"
    /\ ~IsApiPath(frame[w].path)
    /\ frame' = [frame EXCEPT ![w].reg = proxystats.gets]
    /\ pc' = [pc EXCEPT ![w] = "static_w"]
    /\ UNCHANGED <<server, pw, client, cloudmode, proxystats, now, resp, hist, call>>

\* a Set-Cookie header
Cookie(name, value) == [name |-> name, value |-> value]

\* lines 428-434: the values of the two cookies, placeholders in token mode
\* and else the entries of pw.auth
CookieValue(obj, name, line) ==
    IF obj.authmode = "token" THEN Str("1234567890")
    ELSE Subscript(obj.auth, K(name), line)

\* line 427, the store, and the cookies of lines 428-434
StaticCountWrite(w) ==
    /\ pc[w] = "static_w"
    /\ proxystats' = [proxystats EXCEPT !.gets = frame[w].reg + 1]
    /\ LET AuthCookie == CookieValue(pw, "AuthCookie", 433)
           UserRecord == CookieValue(pw, "UserRecord", 434)
       IN  IF IsRaise(AuthCookie)
           THEN /\ pc' = [pc EXCEPT ![w] = "aborted"]
                /\ frame' = [frame EXCEPT ![w].counted = "gets", ![w].exc = AuthCookie]
                /\ UNCHANGED resp
           ELSE IF IsRaise(UserRecord)
           THEN /\ pc' = [pc EXCEPT ![w] = "aborted"]
                /\ frame' = [frame EXCEPT ![w].counted = "gets", ![w].exc = UserRecord]
                /\ resp' = [resp EXCEPT
                      ![w].headers = @ \cup {"Set-Cookie"},
                      ![w].cookies = @ \cup {Cookie("AuthCookie", AuthCookie)}]
           ELSE /\ pc' = [pc EXCEPT ![w] = "static"]
                /\ frame' = [frame EXCEPT ![w].counted = "gets"]
                /\ resp' = [resp EXCEPT
                      ![w].headers = @ \cup {"Set-Cookie"},
                      ![w].cookies = @ \cup {Cookie("AuthCookie", AuthCookie),
                                             Cookie("UserRecord", UserRecord)}]
    /\ UNCHANGED <<server, pw, client, cloudmode, now, hist, call>>

\* what get_static found under web_root (lines 439 and 452)
Looked(found) == IF found THEN "yes" ELSE "no"

\* lines 436-503
StaticServe(w, scens) ==
    /\ pc[w] = "static"
    /\ \E sc \in Env(scens), found \in BOOLEAN :
          LET fcontent == StaticContent(frame[w].path, found, sc, cloudmode, pw)
              path == IF frame[w].path \in {"/", ""} THEN "/index.html"
                      ELSE frame[w].path
          IN  IF IsRaise(fcontent)
              THEN /\ pc' = [pc EXCEPT ![w] = "aborted"]
                   /\ frame' = [frame EXCEPT ![w].sc = sc, ![w].path = path,
                                             ![w].exc = fcontent,
                                             ![w].found = Looked(found)]
                   /\ UNCHANGED <<resp, hist>>
              ELSE /\ pc' = [pc EXCEPT ![w] = "responded"]
                   /\ frame' = [frame EXCEPT ![w].sc = sc, ![w].path = path,
                                             ![w].found = Looked(found)]
                   /\ resp' = [resp EXCEPT
                         ![w].headers = @ \cup {"Cache-Control", "Content-type"},
                         ![w].ended = TRUE, ![w].body = fcontent]
                   /\ hist' = [hist EXCEPT !.served = Inc(@, path)]
    /\ UNCHANGED <<server, pw, client, cloudmode, proxystats, now, call>>

\* lines 506-513 with the null message falling into the branch of errors
CounterOfNullAsError(message) ==
    IF message = None \/ message = Str("ERROR!") THEN "errors" ELSE "gets"

\* which counter lines 506-513 pick for a message
CounterOf(message) ==
    IF message = None THEN "timeout"
    ELSE IF message = Str("ERROR!") THEN "errors"
    ELSE "gets"

\* lines 506-513, the load of the counter
Count(w) ==
    /\ pc[w] = "count"
    /\ frame' = [frame EXCEPT ![w].reg = proxystats[CounterOf(frame[w].message)]]
    /\ pc' = [pc EXCEPT ![w] = "count_w"]
    /\ UNCHANGED <<server, pw, client, cloudmode, proxystats, now, resp, hist, call>>

\* lines 507-513, the store
CountWrite(w) ==
    /\ pc[w] = "count_w"
    /\ LET counter == CounterOf(frame[w].message)
       IN  /\ proxystats' = [proxystats EXCEPT ![counter] = frame[w].reg + 1]
           /\ frame' = [frame EXCEPT
                 ![w].counted = counter,
                 ![w].message = CASE counter = "timeout" -> Str("TIMEOUT!")
                                  [] counter = "errors" -> Str("ERROR!")
                                  [] OTHER -> @]
           /\ pc' = [pc EXCEPT ![w] = IF counter = "gets" THEN "uri" ELSE "send"]
    /\ UNCHANGED <<server, pw, client, cloudmode, now, resp, hist, call>>

\* line 514
UriCheck(w) ==
    /\ pc[w] = "uri"
    /\ pc' = [pc EXCEPT ![w] = IF frame[w].path \in DOMAIN proxystats.uri
                               THEN "uri_r" ELSE "uri_new"]
    /\ UNCHANGED <<server, pw, client, cloudmode, proxystats, now, frame, resp, hist, call>>

\* line 515, the load
UriRead(w) ==
    /\ pc[w] = "uri_r"
    /\ IF frame[w].path \in DOMAIN proxystats.uri
       THEN /\ frame' = [frame EXCEPT ![w].reg = proxystats.uri[frame[w].path]]
            /\ pc' = [pc EXCEPT ![w] = "uri_w"]
       ELSE Abort(w, Raise("KeyError", 515))
    /\ UNCHANGED <<server, pw, client, cloudmode, proxystats, now, resp, hist, call>>

\* the hit counter a handler stores: line 515 or line 517
HitStored(at, reg) == IF at = "uri_w" THEN reg + 1 ELSE 1

\* line 515, the store, or line 517
UriWrite(w) ==
    /\ pc[w] \in {"uri_w", "uri_new"}
    /\ LET path == frame[w].path
           n == HitStored(pc[w], frame[w].reg)
       IN  proxystats' = [proxystats EXCEPT
              !.uri = IF path \in DOMAIN @ THEN [@ EXCEPT ![path] = n]
                      ELSE @ @@ (path :> n)]
    /\ pc' = [pc EXCEPT ![w] = "send"]
    /\ UNCHANGED <<server, pw, client, cloudmode, now, frame, resp, hist, call>>

\* line 525: bytes(message, "utf8") takes a str alone; the TypeError of
\* anything else is caught at line 526 and nothing is written
BodyOf(message) == IF IsStr(message) THEN message ELSE None

\* lines 520-527
Send(w) ==
    /\ pc[w] = "send"
    /\ resp' = [resp EXCEPT
          ![w].headers = @ \cup {"Content-type", "Content-Length",
                                 "Access-Control-Allow-Origin"},
          ![w].ended = TRUE,
          ![w].body = BodyOf(frame[w].message)]
    /\ hist' = IF frame[w].counted = "gets"
               THEN [hist EXCEPT !.served = Inc(@, frame[w].path)]
               ELSE hist
    /\ pc' = [pc EXCEPT ![w] = "responded"]
    /\ UNCHANGED <<server, pw, client, cloudmode, proxystats, now, frame, call>>

\* the connection is closed and the thread ends
Close(w) ==
    /\ pc[w] \in {"responded", "aborted"}
    /\ pc' = [pc EXCEPT ![w] = "closed"]
    /\ frame' = [frame EXCEPT ![w] = BlankFrame]
    /\ resp' = [resp EXCEPT ![w] = BlankResp]
    /\ UNCHANGED <<server, pw, client, cloudmode, proxystats, now, hist, call>>

\* the paths requested
Paths ==
    {"/aggregates", "/soe", "/api/system_status/soe",
     "/api/system_status/grid_status", "/csv", "/vitals", "/strings", "/stats",
     "/stats/clear", "/temps", "/temps/pw", "/alerts", "/alerts/pw", "/freq",
     "/pod", "/version", "/help", "/api/troubleshooting/problems",
     "/api/status", "/", "/app.js"}

Handle(paths, scens, serial) ==
    \E w \in Workers :
        \/ Accept(w, paths, serial)
        \/ RouteApi(w, scens)
        \/ RouteStats(w, scens)
        \/ ClearGets(w)
        \/ ClearErrors(w)
        \/ ClearUri(w)
        \/ ClearStamp(w)
        \/ HelpFill(w, scens)
        \/ HelpIter(w)
        \/ StaticCount(w)
        \/ StaticCountWrite(w)
        \/ StaticServe(w, scens)
        \/ Count(w)
        \/ CountWrite(w)
        \/ UriCheck(w)
        \/ UriRead(w)
        \/ UriWrite(w)
        \/ Send(w)
        \/ Close(w)

\* the gateway serving one request at a time, over every route
Next == Startup \/ Handle(Paths, Scenarios, TRUE) \/ Sigterm
Spec == Init /\ [][Next]_vars

\* the gateway serving its connections concurrently, a thread each
ConcPaths == {"/soe", "/stats", "/stats/clear", "/help", "/app.js"}
ConcScenarios == {"healthy", "offline"}
ConcNext == Startup \/ Handle(ConcPaths, ConcScenarios, FALSE) \/ Sigterm
ConcSpec == Init /\ [][ConcNext]_vars

\* ---------------------------------------------------------------- facade calls
\* The accessors of Powerwall called one at a time, each on a payload the
\* backend may hand it: what every Scenario answers, and beside it null, the
\* empty dictionary, a dictionary without the field read, and every value of
\* the field the accessor distinguishes.
ErrorPayload == Dict(<<P("code", Num(503)), P("error", Str("Service Unavailable"))>>)
PayloadsOf(api) ==
    {ClientPoll(sc, api) : sc \in Scenarios} \cup {None, EmptyDict, ErrorPayload}

SoePayloads ==
    PayloadsOf("/api/system_status/soe")
    \cup {Dict(<<P("percentage", Num(n))>>) : n \in {0, 5, 95, 100}}
    \cup {Dict(<<P("percentage", None)>>)}

SiteNamePayloads ==
    PayloadsOf("/api/site_info/site_name") \cup {Dict(<<P("timezone", Str("UTC"))>>)}

StatusPayloads == PayloadsOf("/api/status")
StatusParams == {None, Str("version"), Str("din"), Str("git_hash"), Str("leader")}

OperationPayloads ==
    PayloadsOf("/api/operation")
    \cup {Dict(<<P("backup_reserve_percent", Num(n))>>) : n \in {0, 5, 100}}
    \cup {Dict(<<P("real_mode", Str("backup"))>>),
          Dict(<<P("backup_reserve_percent", None)>>)}

GridStatusPayloads ==
    PayloadsOf("/api/system_status/grid_status")
    \cup {Dict(<<P("grid_status", Str(s))>>) : s \in DOMAIN gridmap \cup {"SystemUnknown"}}
    \cup {Dict(<<P("grid_services_active", Bool(FALSE))>>),
          Dict(<<P("grid_status", None)>>)}
GridStatusTypes == {"string", "numeric", "json", "text"}

VitalsOutputs == {ClientVitals(sc) : sc \in Scenarios}

Called(fn, payload, arg, ret) ==
    [fn |-> fn, payload |-> payload, arg |-> arg, ret |-> ret]

gateway == <<server, pw, client, cloudmode, proxystats, now, pc, frame, resp, hist>>

CallPoll ==
    /\ pw.built
    /\ \E sc \in Scenarios, api \in ALLOWLIST, jsonformat \in BOOLEAN :
        /\ call' = Called("poll", ClientPoll(sc, api), [api |-> api, jsonformat |-> jsonformat],
                  Poll(ClientPoll(sc, api), jsonformat))
        /\ UNCHANGED gateway

CallLevel ==
    /\ pw.built
    /\ \E payload \in SoePayloads, scale \in BOOLEAN :
        /\ call' = Called("level", payload, [scale |-> scale], Level(payload, scale))
        /\ UNCHANGED gateway

CallSiteName ==
    /\ pw.built
    /\ \E payload \in SiteNamePayloads :
        /\ call' = Called("site_name", payload, [none |-> TRUE], SiteName(payload))
        /\ UNCHANGED gateway

CallStatus ==
    /\ pw.built
    /\ \E payload \in StatusPayloads, param \in StatusParams, jsonformat \in BOOLEAN :
        /\ call' = Called("status", payload, [param |-> param, jsonformat |-> jsonformat],
                  Status(payload, param, jsonformat))
        /\ UNCHANGED gateway

CallSystemStatus ==
    /\ pw.built
    /\ \E payload \in PayloadsOf("/api/system_status"), jsonformat \in BOOLEAN :
        /\ call' = Called("system_status", payload, [jsonformat |-> jsonformat],
                  SystemStatus(payload, jsonformat))
        /\ UNCHANGED gateway

CallGetReserve ==
    /\ pw.built
    /\ \E data \in OperationPayloads, scale \in BOOLEAN :
        /\ call' = Called("get_reserve", data, [scale |-> scale], GetReserve(data, scale))
        /\ UNCHANGED gateway

CallGridStatus ==
    /\ pw.built
    /\ \E payload \in GridStatusPayloads, type \in GridStatusTypes :
        /\ call' = Called("grid_status", payload, [type |-> type], GridStatus(payload, type))
        /\ UNCHANGED gateway

CallVitals ==
    /\ pw.built
    /\ \E output \in VitalsOutputs, jsonformat \in BOOLEAN :
        /\ call' = Called("vitals", output, [jsonformat |-> jsonformat],
                          Vitals(output, jsonformat))
        /\ UNCHANGED gateway

CallTemps ==
    /\ pw.built
    /\ \E output \in VitalsOutputs, jsonformat \in BOOLEAN :
        /\ call' = Called("temps", output, [jsonformat |-> jsonformat], Temps(output, jsonformat))
        /\ UNCHANGED gateway

CallAlerts ==
    /\ pw.built
    /\ \E sc \in Scenarios, jsonformat \in BOOLEAN, alertsonly \in BOOLEAN :
        /\ call' = Called("alerts", ClientVitals(sc),
                  [solar |-> ClientPoll(sc, "/api/solar_powerwall"),
                   jsonformat |-> jsonformat, alertsonly |-> alertsonly],
                  Alerts(ClientVitals(sc), ClientPoll(sc, "/api/solar_powerwall"),
                         jsonformat, alertsonly))
        /\ UNCHANGED gateway

CallStrings ==
    /\ pw.built
    /\ \E sc \in Scenarios, jsonformat \in BOOLEAN, verbose \in BOOLEAN :
        /\ call' = Called("strings", ClientVitals(sc),
                  [solar |-> ClientPoll(sc, "/api/solar_powerwall"),
                   jsonformat |-> jsonformat, verbose |-> verbose],
                  Strings(ClientVitals(sc), ClientPoll(sc, "/api/solar_powerwall"),
                          jsonformat, verbose))
        /\ UNCHANGED gateway

\* the firmware versions the device may report: one to three components
Components == {0, 1, 99}
Versions3 ==
    {<<a>> : a \in Components}
    \cup {<<a, b>> : a \in Components, b \in Components}
    \cup {<<a, b, c>> : a \in Components, b \in Components, c \in Components}
VersionPayloads ==
    {Dict(<<P("version", VerStr(l))>>) : l \in Versions3}
    \cup {None, EmptyDict, Dict(<<P("din", Str("1232100-00-E--TG1"))>>),
          Dict(<<P("version", None)>>)}

\* the message of the route /version for a payload of /api/status
CallVersionRoute ==
    /\ pw.built
    /\ \E payload \in VersionPayloads :
        /\ call' = Called("/version", payload, [none |-> TRUE],
                          VersionMessage(Version(payload)))
        /\ UNCHANGED gateway

\* Powerwall(host, ..., cloudmode=..., authmode=...): the object is built, or
\* the constructor raises and there is no object
Construct ==
    /\ ~pw.built
    /\ \E host \in Hosts, cloudmodeArg \in BOOLEAN, authmode \in AuthModes,
          ok \in BOOLEAN :
          LET obj == PowerwallInit(host, cloudmodeArg, authmode, ok)
          IN  /\ call' = Called("Powerwall", None,
                               [host |-> host, cloudmode |-> cloudmodeArg,
                                authmode |-> authmode],
                               IF IsRaise(obj) THEN obj ELSE None)
              /\ IF IsRaise(obj) THEN UNCHANGED <<pw, cloudmode>>
                 ELSE /\ pw' = obj
                      /\ cloudmode' = CloudModeOf(cloudmodeArg, host)
    /\ UNCHANGED <<server, client, proxystats, now, pc, frame, resp, hist>>

FacadeNext ==
    \/ Construct
    \/ CallPoll
    \/ CallLevel
    \/ CallSiteName
    \/ CallStatus
    \/ CallSystemStatus
    \/ CallGetReserve
    \/ CallGridStatus
    \/ CallVitals
    \/ CallTemps
    \/ CallAlerts
    \/ CallStrings
    \/ CallVersionRoute

\* the facade alone, one accessor call after another
FacadeSpec == Init /\ [][FacadeNext]_vars

\* ---------------------------------------------------------------- backend client
\* pw.client.poll, to which Powerwall.poll delegates at line 188: the response
\* cache and the session of the backend. The classes of the client are not
\* among the sources; this part follows the design of the cache and of the
\* local backend (sections 4.1 and 4.2).
CachePaths == {"/api/system_status/soe", "/api/meters/aggregates"}
Versions == {1, 2}
Responses == {"ok", "expired", "timeout"}

\* what the device answers for api when its data is at version v
DevicePayload(api, v) == Dict(<<P("api", Str(api)), P("seq", Num(v))>>)
Failure(kind) == [t |-> "failure", kind |-> kind]
CacheEntry(payload, at) == [payload |-> payload, fetchedAt |-> at]

\* a cache that never answers
FreshNever(c, api) == FALSE

\* an entry exists for api and is not older than the time to live
Fresh(c, api) ==
    /\ api \in DOMAIN c.cache
    /\ c.time - c.cache[api].fetchedAt <= CacheExpire

\* a fetch that is retried on an expired session without a new session
FetchNoReauth(first, reauth, second) ==
    IF first = "expired" THEN [fetches |-> 2, auths |-> 0, outcome |-> second]
    ELSE [fetches |-> 1, auths |-> 0, outcome |-> first]

\* the fetch of the local backend: on an expired session one
\* re-authentication and one retry of the same request, whose outcome is
\* final. first, second: what the device answers to the request and to its
\* retry; reauth: whether the re-authentication gave a session, without which
\* the retry cannot succeed
Fetch(first, reauth, second) ==
    IF first = "expired"
    THEN [fetches |-> 2, auths |-> 1,
          outcome |-> IF ~reauth /\ second = "ok" THEN "expired" ELSE second]
    ELSE [fetches |-> 1, auths |-> 0, outcome |-> first]

\* the failure a fetch surfaces
FailureOf(outcome) ==
    IF outcome = "expired" THEN Failure("AuthenticationFailure")
    ELSE Failure("NetworkTimeout")

\* the cache after a fetch: a success replaces the entry, a failure is not
\* cached and discards a stale entry
Stored(c, api, outcome, payload) ==
    IF outcome = "ok"
    THEN [c EXCEPT !.cache = [p \in DOMAIN c.cache \cup {api} |->
                                 IF p = api THEN CacheEntry(payload, c.time)
                                 ELSE c.cache[p]]]
    ELSE IF Fresh(c, api) THEN c
    ELSE [c EXCEPT !.cache = [p \in DOMAIN c.cache \ {api} |-> c.cache[p]]]

\* what is kept of a call of poll for the call that follows it
Summary(c) ==
    [api |-> c.arg.api, at |-> c.at, force |-> c.arg.force, ret |-> c.ret,
     fetches |-> c.fetches]
NoneBefore == [api |-> "", at |-> 0]

\* a call of poll as the next calls remember it
PollCalled(api, force, entry, f, first, ret) ==
    [fn |-> "client.poll", arg |-> [api |-> api, force |-> force],
     at |-> client.time, entry |-> entry, hit |-> f.fetches = 0,
     first |-> first, fetches |-> f.fetches, auths |-> f.auths,
     outcome |-> f.outcome, ret |-> ret,
     last |-> IF call.fn = "client.poll" THEN Summary(call) ELSE NoneBefore]

\* poll(api) without the force flag finding a fresh entry: the cached payload
\* is returned, and the backend is not called
ClientPollCached ==
    /\ pw.built
    /\ \E api \in CachePaths :
          /\ Fresh(client, api)
          /\ call' = PollCalled(api, FALSE, client.cache[api],
                                [fetches |-> 0, auths |-> 0, outcome |-> "none"],
                                "none", client.cache[api].payload)
    /\ UNCHANGED <<server, pw, client, cloudmode, proxystats, now, pc, frame, resp, hist>>

\* poll(api, force) with the force flag, or finding no fresh entry: the fetch
ClientPollFetch ==
    /\ pw.built
    /\ \E api \in CachePaths, force \in BOOLEAN, v \in Versions,
          first \in Responses, reauth \in BOOLEAN, second \in Responses :
          LET f == Fetch(first, reauth, second)
              entry == IF api \in DOMAIN client.cache THEN client.cache[api] ELSE None
          IN  /\ force \/ ~Fresh(client, api)
              /\ call' = PollCalled(api, force, entry, f, first,
                                    IF f.outcome = "ok" THEN DevicePayload(api, v)
                                    ELSE FailureOf(f.outcome))
              /\ client' = Stored(client, api, f.outcome, DevicePayload(api, v))
    /\ UNCHANGED <<server, pw, cloudmode, proxystats, now, pc, frame, resp, hist>>

\* time passes
Tick ==
    /\ client.time < MaxClock
    /\ client' = [client EXCEPT !.time = @ + 1]
    /\ UNCHANGED <<server, pw, cloudmode, proxystats, now, pc, frame, resp, hist, call>>

ClientNext == ClientPollCached \/ ClientPollFetch \/ Tick

\* the client of a Powerwall object built in local mode
ClientInit ==
    /\ server = Boot
    /\ pw = PowerwallInit("10.0.1.99", FALSE, "cookie", TRUE)
    /\ client = NewClient
    /\ cloudmode = FALSE
    /\ proxystats = InitStats
    /\ now = 0
    /\ pc = [w \in Workers |-> "idle"]
    /\ frame = [w \in Workers |-> BlankFrame]
    /\ resp = [w \in Workers |-> BlankResp]
    /\ hist = [served |-> [p \in {} |-> 0], cleared |-> FALSE]
    /\ call = NoCall

\* the backend client polled again and again while time passes
ClientSpec == ClientInit /\ [][ClientNext]_vars

\* ---------------------------------------------------------------- properties
\* what a request in its final state has added to the counters: the counters
\* now against the counters when it was accepted (one request at a time)
Post(w) == Counters(proxystats, frame[w].path)
Grown(w) ==
    [c \in {"gets", "errors", "timeout", "hit"} |-> Post(w)[c] - frame[w].pre[c]]

\* C1: every request that got its response, other than /stats/clear (which
\* zeroes the counters it is measured against), has incremented exactly one of
\* gets, errors, timeout, by exactly 1, and when it was counted as a success
\* the hit counter of its path has grown by exactly 1, whichever branch of
\* do_GET served it.
C1_OneCounterAndHit ==
    \A w \in Workers :
        (pc[w] = "responded" /\ frame[w].path # "/stats/clear") =>
            /\ \A c \in {"gets", "errors", "timeout"} : Grown(w)[c] \in {0, 1}
            /\ Grown(w).gets + Grown(w).errors + Grown(w).timeout = 1
            /\ Grown(w).gets = 1 => Grown(w).hit = 1

RECURSIVE Total(_)
Total(f) ==
    IF DOMAIN f = {} THEN 0
    ELSE LET p == CHOOSE q \in DOMAIN f : TRUE
         IN  f[p] + Total([q \in DOMAIN f \ {p} |-> f[q]])

Quiescent == \A w \in Workers : pc[w] \in {"idle", "closed"}

\* C2: with the handlers interleaved in any way, once every request has
\* completed, the requests served as a success were API requests and no
\* /stats/clear was among them, gets has grown by no less than their number
\* (requests that were not served add to it, none takes from it) and the hit
\* counter of every path has grown by exactly the number of requests to that
\* path served as a success: no update of the statistics is lost.
C2_NoLostUpdate ==
    (/\ Quiescent
     /\ ~hist.cleared
     /\ \A p \in DOMAIN hist.served : IsApiPath(p)) =>
        /\ proxystats.gets >= Total(hist.served)
        /\ \A p \in DOMAIN hist.served : Hit(proxystats.uri, p) = hist.served[p]

\* C3: when a /stats/clear request has been handled completely, gets, errors
\* and timeout are all zero and the map of hit counters is empty.
C3_ClearZeroes ==
    \A w \in Workers :
        (pc[w] = "responded" /\ frame[w].path = "/stats/clear") =>
            /\ proxystats.gets = 0
            /\ proxystats.errors = 0
            /\ proxystats.timeout = 0
            /\ DOMAIN proxystats.uri = {}

\* C4: no step of any request changes proxystats['start'], and a step of the
\* handler of /stats/clear changes nothing of proxystats but the counters
\* (gets, errors, timeout, uri) and 'clear'.
C4_StartAndClearFrame ==
    [][/\ proxystats'.start = proxystats.start
       /\ \A w \in Workers :
             (frame[w].path = "/stats/clear" /\ pc'[w] # pc[w]) =>
                 \A f \in {"ts", "start", "uptime", "site_name", "cloudmode"} :
                     proxystats'[f] = proxystats[f]]_vars

\* a /stats/clear answered after the clock has moved on and after a /stats or
\* /help has stamped 'ts': 'clear' has left 'start' behind
C4_Witness ==
    \E w \in Workers :
        /\ pc[w] = "responded" /\ frame[w].path = "/stats/clear"
        /\ proxystats.clear > proxystats.start
        /\ proxystats.ts > proxystats.start
        /\ proxystats.start = InitStats.start

\* C5: no handler leaves do_GET by an exception, and every request that got
\* its response has had its headers ended and a body written.
C5_AlwaysResponds ==
    \A w \in Workers :
        /\ pc[w] # "aborted"
        /\ pc[w] = "responded" => (resp[w].ended /\ resp[w].body # None)

\* C6: the body written for a path the allow-list alone routes is the JSON of
\* the very payload the backend's poll returned for that path.
C6_AllowlistVerbatim ==
    \A w \in Workers :
        (pc[w] = "responded" /\ frame[w].path \in ALLOWLIST \ RoutePaths) =>
            resp[w].body = Json(ClientPoll(frame[w].sc, frame[w].path))

\* C7: the handler of /freq or /pod never raises in the code of these two
\* routes (lines 264-374 of server.py), where every key of a battery block or
\* a vitals device is read: a key that is missing leaves a null field.
C7_MissingKeyNoRaise ==
    \A w \in Workers :
        (pc[w] = "aborted" /\ frame[w].path \in {"/freq", "/pod"}) =>
            frame[w].exc.line \notin 264..374

\* the object /temps/pw is to return for a vitals payload: PW<i>_temp for the
\* i-th TETHC device, in the payload's order
ExpectedPwTemps(vitals) ==
    LET devs == IF vitals.t = "dict"
                THEN SelectSeq(vitals.items, LAMBDA it : StartsWith(it.k, "TETHC"))
                ELSE <<>>
    IN  Dict([i \in 1..Len(devs) |->
                KV(PW(i, "temp"),
                   IF In(K("THC_AmbientTemp"), devs[i].v)
                   THEN Lookup(devs[i].v, K("THC_AmbientTemp")) ELSE None)])

\* C8: a request to /temps/pw never raises; its body is the JSON object with
\* the keys PW1_temp .. PWn_temp for the n TETHC devices of the vitals payload
\* in their order, {} when the vitals payload is null or empty; and it is
\* counted in gets and in the hit counter of /temps/pw, not in errors or
\* timeout.
C8_TempsPw ==
    \A w \in Workers :
        frame[w].path = "/temps/pw" =>
            /\ pc[w] # "aborted"
            /\ pc[w] = "responded" =>
                  /\ resp[w].body = Json(ExpectedPwTemps(ClientVitals(frame[w].sc)))
                  /\ ClientVitals(frame[w].sc) \in {None, EmptyDict} =>
                        resp[w].body = Json(EmptyDict)
                  /\ frame[w].counted = "gets"
                  /\ Grown(w) = [gets |-> 1, errors |-> 0, timeout |-> 0, hit |-> 1]

\* /temps/pw answered for a device with two TETHC units, a PINV, POD, SYNC
\* and solar devices between them
C8_Witness ==
    \E w \in Workers :
        /\ pc[w] = "responded" /\ frame[w].path = "/temps/pw"
        /\ frame[w].sc = "healthy"
        /\ resp[w].body =
              Json(Dict(<<KV(PW(1, "temp"), Num(20)), KV(PW(2, "temp"), Num(22))>>))

\* the field an accessor reads from its payload, None when it reads none
FieldRead(c) ==
    CASE c.fn = "level" -> K("percentage")
      [] c.fn = "site_name" -> K("site_name")
      [] c.fn = "get_reserve" -> K("backup_reserve_percent")
      [] c.fn = "status" /\ c.arg.param # None -> K(c.arg.param.s)
      [] OTHER -> None

\* the payload is null, or a dictionary without the field the accessor reads
DegradedCall(c) ==
    \/ c.payload = None
    \/ c.payload.t = "dict" /\ FieldRead(c) # None /\ ~In(FieldRead(c), c.payload)

\* C9: level, site_name, status(param), system_status and get_reserve return
\* None, and do not raise, when the payload polled is None or is a dictionary
\* without the field the accessor reads.
C9_NullOnDegraded ==
    (/\ call.fn \in {"level", "site_name", "status", "system_status", "get_reserve"}
     /\ DegradedCall(call)) => call.ret = None

\* level(scale=True) called on a dictionary that has no 'percentage'
C9_Witness ==
    /\ call.fn = "level" /\ call.arg.scale
    /\ call.payload = ErrorPayload
    /\ call.ret = None

\* C10: grid_status("string") and grid_status("numeric") return None, and do
\* not raise, when the payload polled is None or has no 'grid_status' key.
C10_GridStatusNull ==
    (/\ call.fn = "grid_status"
     /\ call.arg.type \in {"string", "numeric"}
     /\ (call.payload = None \/ ~In(K("grid_status"), call.payload)))
        => call.ret = None

\* the raw states the mapping table of grid_status lists (lines 496-502)
GridTable ==
    {"SystemGridConnected", "SystemIslandedActive", "SystemTransitionToGrid",
     "SystemTransitionToIsland", "SystemIslandedReady", "SystemMicroGridFaulted",
     "SystemWaitForUser"}

\* C11: for a payload that has a grid_status, grid_status("string") and
\* grid_status("numeric") agree: SystemGridConnected gives UP / 1,
\* SystemIslandedActive DOWN / 0, SystemTransitionToGrid SYNCING / -1; for
\* every raw state of the table the string is one of UP, DOWN, SYNCING and is
\* UP exactly when the number is 1, DOWN exactly when it is 0, SYNCING exactly
\* when it is -1; a raw state outside the table gives None for both, and
\* neither raises.
C11_GridMap ==
    (/\ call.fn = "grid_status"
     /\ call.arg.type \in {"string", "numeric"}
     /\ In(K("grid_status"), call.payload)) =>
        LET raw == Lookup(call.payload, K("grid_status"))
            other == IF call.arg.type = "string" THEN "numeric" ELSE "string"
            twin == GridStatus(call.payload, other)
            s == IF call.arg.type = "string" THEN call.ret ELSE twin
            n == IF call.arg.type = "string" THEN twin ELSE call.ret
        IN  /\ ~IsRaise(s) /\ ~IsRaise(n)
            /\ raw = Str("SystemGridConnected") => (s = Str("UP") /\ n = Num(1))
            /\ raw = Str("SystemIslandedActive") => (s = Str("DOWN") /\ n = Num(0))
            /\ raw = Str("SystemTransitionToGrid") => (s = Str("SYNCING") /\ n = Num(-1))
            /\ (raw.t = "str" /\ "s" \in DOMAIN raw /\ raw.s \in GridTable) =>
                  /\ s \in {Str("UP"), Str("DOWN"), Str("SYNCING")}
                  /\ s = Str("UP") <=> n = Num(1)
                  /\ s = Str("DOWN") <=> n = Num(0)
                  /\ s = Str("SYNCING") <=> n = Num(-1)
            /\ ~(raw.t = "str" /\ "s" \in DOMAIN raw /\ raw.s \in GridTable) =>
                  (s = None /\ n = None)

\* grid_status("numeric") called while the grid is faulted
C11_Witness ==
    /\ call.fn = "grid_status" /\ call.arg.type = "numeric"
    /\ call.payload = Dict(<<P("grid_status", Str("SystemMicroGridFaulted"))>>)
    /\ call.ret = Num(0)

\* grid_status("string") called with a raw state the table does not list
C11_WitnessUnknown ==
    /\ call.fn = "grid_status" /\ call.arg.type = "string"
    /\ call.payload = Dict(<<P("grid_status", Str("SystemUnknown"))>>)
    /\ call.ret = None

\* the raw percentage a level or get_reserve call read, None when its payload
\* has no number under the key
RawPercent(fn, payload) ==
    LET key == IF fn = "level" THEN K("percentage") ELSE K("backup_reserve_percent")
    IN  IF payload # None /\ payload.t = "dict" /\ In(key, payload)
           /\ Lookup(payload, key).t = "num"
        THEN Lookup(payload, key) ELSE None

\* displayed * 95 = (raw - 5) * 100, displayed being the fraction num / den
IsScaled(displayed, raw) ==
    /\ displayed.t = "num" /\ "den" \in DOMAIN displayed
    /\ displayed.num * 95 = (raw.n - 5) * 100 * displayed.den

\* the scaling half of C12: level and get_reserve with scaling return
\* displayed with displayed * 95 = (raw - 5) * 100, and without scaling the
\* raw percentage itself
C12_Scaling ==
    (/\ call.fn \in {"level", "get_reserve"}
     /\ RawPercent(call.fn, call.payload) # None) =>
        LET raw == RawPercent(call.fn, call.payload)
        IN  IF call.arg.scale THEN IsScaled(call.ret, raw) ELSE call.ret = raw

\* level(scale=True) called on a raw percentage of 50
C12_ScalingWitness ==
    /\ call.fn = "level" /\ call.arg.scale
    /\ call.payload = Dict(<<P("percentage", Num(50))>>)
    /\ call.ret = Frac(4500, 95)

\* C12: with scaling, level and get_reserve return displayed with
\* displayed * 95 = (raw - 5) * 100 and without scaling the raw percentage;
\* the response to /api/system_status/soe reports {"percentage": scaled} and
\* the response to /soe reports the unscaled payload of the backend.
C12_SoeRoutes ==
    /\ C12_Scaling
    /\ \A w \in Workers :
          LET payload == ClientPoll(frame[w].sc, "/api/system_status/soe")
              raw == RawPercent("level", payload)
          IN  (pc[w] = "responded" /\ raw # None) =>
                /\ frame[w].path = "/soe" => resp[w].body = Json(payload)
                /\ frame[w].path = "/api/system_status/soe" =>
                      resp[w].body = Json(Dict(<<P("percentage", Scale(raw))>>))

\* C13: the step that builds the Powerwall object leaves cloudmode true
\* exactly when the cloudmode argument was true or the host was empty, with
\* the cloud client in cloud mode and the local client otherwise; and no step
\* taken once the object is built changes cloudmode or the client.
C13_CloudModeFixed ==
    [][/\ (~pw.built /\ pw'.built) =>
             /\ cloudmode' = (call'.arg.cloudmode \/ call'.arg.host = "")
             /\ pw'.client = IF cloudmode' THEN "PyPowerwallCloud"
                             ELSE "PyPowerwallLocal"
       /\ pw.built => (cloudmode' = cloudmode /\ pw'.client = pw.client)]_vars

\* the object built with no host and no cloudmode argument
C13_Witness ==
    /\ call.fn = "Powerwall" /\ call.arg.host = "" /\ ~call.arg.cloudmode
    /\ pw.built /\ cloudmode /\ pw.client = "PyPowerwallCloud"

\* C14: when the constructor of the Powerwall object raised, or the cloud-mode
\* site step of the start (lines 149-160) did not succeed, a fatal error has
\* been logged, the listener is not serving, and no request has been accepted.
C14_FatalStart ==
    (server.ctor = "raised" \/ server.switch \in {"failed", "raised"}) =>
        /\ server.fatal
        /\ server.phase # "serving"
        /\ \A w \in Workers : pc[w] = "idle"

\* C15: a request that matches no API route, once its handler is done, was
\* served: from web_root when the asset exists there; when it does not, in
\* local mode by the device's web server through the proxy (or the device
\* could not be reached), and in cloud mode by the Not Found text.
C15_StaticOrProxy ==
    \A w \in Workers :
        (pc[w] \in {"responded", "aborted"} /\ ~IsApiPath(frame[w].path)) =>
            IF frame[w].found = "yes"
            THEN pc[w] = "responded" /\ resp[w].body.from = "web_root"
            ELSE IF frame[w].found = "no" /\ ~cloudmode
            THEN \/ pc[w] = "responded" /\ resp[w].body.from = "powerwall"
                 \/ pc[w] = "aborted" /\ frame[w].exc.exc = "ConnectTimeout"
            ELSE IF frame[w].found = "no"
            THEN pc[w] = "responded" /\ resp[w].body.from = "Not Found"
            ELSE FALSE

\* C16: the response to a request that matches no API route carries the
\* Set-Cookie headers AuthCookie and UserRecord: in token mode with the fixed
\* placeholder, in cookie mode with the two cookies of pw.auth.
C16_Cookies ==
    \A w \in Workers :
        (pc[w] \in {"responded", "aborted"} /\ ~IsApiPath(frame[w].path)) =>
            /\ "Set-Cookie" \in resp[w].headers
            /\ resp[w].cookies =
                 IF pw.authmode = "token"
                 THEN {Cookie("AuthCookie", Str("1234567890")),
                       Cookie("UserRecord", Str("1234567890"))}
                 ELSE {Cookie("AuthCookie", DictGet(pw.auth, K("AuthCookie"))),
                       Cookie("UserRecord", DictGet(pw.auth, K("UserRecord")))}

\* C17: a request for /api/troubleshooting/problems never raises, and when
\* the poll of the backend returned null or an empty payload its response has
\* the body {"problems": []} and it was counted as a success: gets and the
\* hit counter of the path grew by 1, timeout and errors by 0; the allow-list
\* route, which would have answered null, was not taken.
C17_ProblemsDefault ==
    \A w \in Workers :
        frame[w].path = "/api/troubleshooting/problems" =>
            /\ pc[w] # "aborted"
            /\ (pc[w] = "responded"
                /\ ~Truthy(ClientPoll(frame[w].sc, "/api/troubleshooting/problems"))) =>
                  /\ resp[w].body = Str("{\"problems\": []}")
                  /\ frame[w].counted = "gets"
                  /\ Grown(w) = [gets |-> 1, errors |-> 0, timeout |-> 0, hit |-> 1]

\* the request answered while the device is offline, the poll returning null
C17_Witness ==
    \E w \in Workers :
        /\ pc[w] = "responded"
        /\ frame[w].path = "/api/troubleshooting/problems"
        /\ ClientPoll(frame[w].sc, "/api/troubleshooting/problems") = None
        /\ resp[w].body = Str("{\"problems\": []}")
        /\ proxystats.timeout = 0 /\ proxystats.gets = 1

\* the call of poll before this one
Earlier == call.last

\* C18 as it is stated: of two calls of poll(P) without the force flag made
\* within one time to live of each other, the second makes no fetch, the two
\* together make at most one, and they return the same payload.
C18_TwoCallsOneFetch ==
    (/\ call.fn = "client.poll" /\ ~call.arg.force
     /\ Earlier.api = call.arg.api /\ ~Earlier.force
     /\ call.at - Earlier.at <= CacheExpire) =>
        /\ call.fetches = 0
        /\ Earlier.fetches + call.fetches <= 1
        /\ call.ret = Earlier.ret

\* C18, amended: a call of poll(P) without the force flag that finds an entry
\* for P fetched no longer ago than the time to live makes no fetch and no
\* re-authentication, returns the payload of that entry, and leaves the entry
\* in place.
C18_FreshEntryNoFetch ==
    (/\ call.fn = "client.poll" /\ ~call.arg.force
     /\ call.entry # None
     /\ call.at - call.entry.fetchedAt <= CacheExpire) =>
        /\ call.fetches = 0 /\ call.auths = 0
        /\ call.ret = call.entry.payload
        /\ call.arg.api \in DOMAIN client.cache
        /\ client.cache[call.arg.api] = call.entry

\* a second call one second after the call that fetched the entry, answered
\* with the payload of that first call
C18_Witness ==
    /\ call.fn = "client.poll" /\ ~call.arg.force
    /\ call.entry # None /\ call.at = call.entry.fetchedAt + 1
    /\ Earlier.api = call.arg.api
    /\ Earlier.at = call.entry.fetchedAt /\ Earlier.fetches = 1
    /\ call.fetches = 0 /\ call.ret = Earlier.ret

\* C19: a call of poll whose fetch met an expired session made exactly one
\* re-authentication and exactly two requests, the fetch and its retry, and
\* when the retry failed too it returned the failure; a call whose fetch did
\* not meet an expired session made no re-authentication and no retry.
C19_OneReauthOneRetry ==
    (call.fn = "client.poll" /\ ~call.hit) =>
        IF call.first = "expired"
        THEN /\ call.auths = 1 /\ call.fetches = 2
             /\ call.outcome # "ok" => call.ret = FailureOf(call.outcome)
        ELSE call.auths = 0 /\ call.fetches = 1

\* a call whose fetch and whose retry both met an expired session
C19_Witness ==
    /\ call.fn = "client.poll" /\ call.first = "expired" /\ call.outcome = "expired"
    /\ call.auths = 1 /\ call.fetches = 2
    /\ call.ret = Failure("AuthenticationFailure")

\* C20: once the process has exited on a termination signal, no handler was
\* cut while it was producing its response: every request that had been
\* accepted got its response completed before the exit.
C20_DrainOnSigterm ==
    server.phase = "exited" => \A w \in Workers : pc[w] # "killed"

\* the requests whose answer rests on a call of the device: the routes that
\* read the facade, and the assets the device's web server is asked for
AsksDevice(w) ==
    \/ IsApiPath(frame[w].path) /\ frame[w].path \notin StatsPaths
    \/ ~IsApiPath(frame[w].path) /\ frame[w].found = "no" /\ ~cloudmode

\* C21: a request whose call of the device timed out, on an API route or
\* through the reverse proxy, got a response whose body is the timeout
\* marker, and grew the timeout counter by 1 and gets, errors and the hit
\* counter of its path by 0; its handler did not raise.
C21_TimeoutDistinct ==
    \A w \in Workers :
        (pc[w] \in {"responded", "aborted"} /\ frame[w].sc = "offline"
         /\ AsksDevice(w)) =>
            /\ pc[w] = "responded"
            /\ resp[w].body = Str("TIMEOUT!")
            /\ Grown(w) = [gets |-> 0, errors |-> 0, timeout |-> 1, hit |-> 0]

\* the version and the vint of a message of /version
VersionOf(message) == Lookup(message.json, K("version"))
VintOf(message) == Lookup(message.json, K("vint")).n

\* a.b.c, a version of fewer components having zeroes for the missing ones
Padded(l) == [i \in 1..3 |-> IF i <= Len(l) THEN l[i] ELSE 0]

\* the component-wise order of two versions of three components
Before(x, y) ==
    \/ x[1] < y[1]
    \/ x[1] = y[1] /\ x[2] < y[2]
    \/ x[1] = y[1] /\ x[2] = y[2] /\ x[3] < y[3]

\* C22: for a firmware version a.b.c of components in 0..99 the message of
\* /version carries the version string as it was reported and
\* vint = a*10000 + b*100 + c, missing components counting as 0; its vint is
\* below the vint /version gives any other such version exactly when it is
\* before it component-wise; when the version is unavailable the message is
\* version "SolarOnly" with vint 0.
C22_Vint ==
    call.fn = "/version" =>
        LET version == Version(call.payload)
        IN  IF version = None
            THEN call.ret = Json(Dict(<<P("version", Str("SolarOnly")),
                                        P("vint", Num(0))>>))
            ELSE LET x == Padded(version.comps)
                 IN  /\ ~IsRaise(call.ret)
                     /\ VersionOf(call.ret) = version
                     /\ VintOf(call.ret) = x[1] * 10000 + x[2] * 100 + x[3]
                     /\ \A l \in Versions3 :
                          (VintOf(call.ret) < VintOf(VersionMessage(VerStr(l))))
                              <=> Before(x, Padded(l))

\* /version for the firmware 1.99, two components
C22_Witness ==
    /\ call.fn = "/version"
    /\ call.payload = Dict(<<P("version", VerStr(<<1, 99>>))>>)
    /\ VintOf(call.ret) = 19900

\* what the backend's vitals call gives when it has no vitals data
NoVitals == {None, EmptyDict}

\* the results that are null or empty, as a value or as its JSON text
NullOrEmpty ==
    {None, EmptyDict, List(<<>>), JsonPretty(None), JsonPretty(EmptyDict),
     JsonPretty(List(<<>>))}

\* the facade half of C23: vitals, strings, temps and alerts called when the
\* backend has no vitals data do not raise; vitals and temps return a null or
\* empty result, and so do strings and alerts when /api/solar_powerwall gives
\* nothing either
C23_Facade ==
    (call.fn \in {"vitals", "strings", "temps", "alerts"}
     /\ call.payload \in NoVitals) =>
        /\ ~IsRaise(call.ret)
        /\ call.fn \in {"vitals", "temps"} => call.ret \in NullOrEmpty
        /\ (call.fn \in {"strings", "alerts"} /\ call.arg.solar \in NoVitals) =>
              call.ret \in NullOrEmpty

\* strings(jsonformat=True) called in a backend without vitals and without
\* /api/solar_powerwall
C23_FacadeWitness ==
    /\ call.fn = "strings" /\ call.payload = None /\ call.arg.solar = None
    /\ call.arg.jsonformat /\ call.ret = JsonPretty(EmptyDict)

C24_NoRaise ==
    \A w \in Workers : IsApiPath(frame[w].path) => pc[w] # "aborted"

\* once every request has completed, the hit counter of a route is no lower
\* than the number of requests to it that completed as a success since
\* proxystats['uri'] was last emptied
C24_HitsKept ==
    Quiescent =>
        \A p \in DOMAIN hist.served :
            IsApiPath(p) => Hit(proxystats.uri, p) >= hist.served[p]

\* C24: with /stats/clear, /help and /stats running concurrently with requests
\* that update the counters, no handler raises, and no hit counter is left
\* lower than the number of successful requests to its path completed since
\* the clear took effect.
C24_ClearAndIterateSafe == C24_NoRaise /\ C24_HitsKept

\* C25: in every reachable state the errors counter is 0: a request that
\* reaches the counting step has had its message assigned by its routing
\* branch, and no facade result is the string "ERROR!", so no request adds to
\* errors.
C25_ErrorsZero ==
    /\ proxystats.errors = 0
    /\ \A w \in Workers :
          pc[w] \in {"count", "count_w"} => frame[w].message # Str("ERROR!")

\* a request whose facade call timed out has been counted and answered, and
\* errors is 0
C25_Witness ==
    \E w \in Workers :
        /\ pc[w] = "responded"
        /\ frame[w].counted = "timeout"
        /\ resp[w].body = Str("TIMEOUT!")
        /\ proxystats.timeout = 1
        /\ proxystats.errors = 0

\* C26: the gateway calls the facade's poll only with a path of a fixed finite
\* set, the allow-list and the paths written out in the route table and the
\* accessors; a request whose path is in neither the route table nor the
\* allow-list never has its path passed to poll, and only the static branch
\* handles it.
C26_PollPathsFixed ==
    \A w \in Workers :
        /\ frame[w].polled \subseteq ALLOWLIST \cup HardCoded
        /\ (pc[w] \notin {"idle", "closed", "killed"}
            /\ frame[w].path \notin RoutePaths \cup ALLOWLIST) =>
              /\ frame[w].polled = {}
              /\ pc[w] \in {"route", "static_w", "static", "responded", "aborted"}
              /\ frame[w].sc # "" => frame[w].found # ""

\* a request for an asset, a path in neither the route table nor the
\* allow-list, has been served from web_root with no call of poll
C26_Witness ==
    \E w \in Workers :
        /\ pc[w] = "responded"
        /\ frame[w].path = "/app.js"
        /\ frame[w].found = "yes"
        /\ frame[w].polled = {}

\* C27: every response the handler sends has status 200, whatever the
\* outcome: the status line is written before routing, so a request being
\* routed, one answered (with its message, with TIMEOUT!, with ERROR!, with an
\* asset or with the cloud-mode Not Found) and one whose handler raised all
\* carry status 200.
C27_Status200 ==
    \A w \in Workers :
        /\ pc[w] \notin {"idle", "closed", "killed"} => resp[w].status = 200
        /\ resp[w].ended => resp[w].status = 200
        /\ resp[w].status \in {0, 200}

\* a timed-out request has been answered TIMEOUT! with status 200
C27_Witness ==
    \E w \in Workers :
        /\ pc[w] = "responded"
        /\ resp[w].ended
        /\ frame[w].sc = "offline"
        /\ resp[w].body = Str("TIMEOUT!")
        /\ resp[w].status = 200

====
